---- MODULE Spec2Model ----
(***************************************************************************)
(* Model of the DOM extraction and compression core of Clawome:           *)
(*   compressors/default.py   the six-stage default pipeline              *)
(*   compressors/*.py         the specialised compressors                 *)
(*   compressor_manager.py    settings resolution and run()               *)
(*   dom_parser.py            format_dom_tree, assemble_result, diff_dom  *)
(*                                                                         *)
(* Representation.                                                         *)
(*   text      a sequence of one-character strings                         *)
(*   attrs     the rendered attribute string, kept as the sequence of its  *)
(*             comma-separated items, each a pair <<key, value>>           *)
(*   actions   a sequence of action names                                  *)
(*   state     a function from state keys to string values                 *)
(*   hid       the dotted identifier "1.3.2" kept as the tuple <<1,3,2>>   *)
(*   tree node a raw node record extended with a field children            *)
(***************************************************************************)
EXTENDS Integers, Sequences, FiniteSets, TLC

VARIABLES
    pc,          \* position of the session: which call has completed
    script,      \* name of the compressor selected for the page
    overrides,   \* config "compressor_settings" entry of the script
    dom_nodes,   \* raw node list returned by the walker
    simplified,  \* the tree as it leaves the simplify loop of process
    filtered,    \* filtered node list returned by process
    result,      \* snapshot built by assemble_result
    again,       \* process applied to its own output
    roundtrip,   \* _tree_to_flat(_flat_to_tree(dom_nodes))
    before_nodes,\* the earlier snapshot's node list handed to diff_dom
    diff,        \* the value returned by diff_dom
    diff_all,    \* added_all, removed_all, changed_all of that call
    diff_max_items, \* the max_items argument of that call
    elements,    \* element instances of the live document, in document order
    data_bid,    \* data-bid of each instance as the latest walk set it
    earlier_bid, \* data-bid of each instance as the walk before set it
    instances,   \* number of element instances created so far
    lock,        \* _lock: the thread that holds it, or NoThread
    tpc,         \* per thread: the step of the call it is executing
    call,        \* per thread: the operation called and its arguments
    outcome,     \* per thread: how its call ends (return or exception)
    drove,       \* per thread: whether the call has made a page call
    entry,       \* per thread: the cached state when the call took the lock
    fresh,       \* per thread: the result local to _refresh_dom
    browser,     \* _browser: whether a browser is launched
    tabs,        \* _context.pages: the open pages, oldest first
    page_doc,    \* the document each page shows
    page,        \* _page: the active page, or NoPage
    node_map,    \* _node_map
    xpath_map,   \* _xpath_map
    last_filtered, \* _last_filtered
    last_result, \* _last_result
    new_pages,   \* _new_pages
    downloads,   \* _downloads
    events,      \* page events emitted and not yet handed to a callback
    pages_made,  \* number of pages created so far
    calls,       \* number of calls made so far
    unlocked,    \* fields written by a thread that did not hold the lock
    files,       \* the compressors directory: file name -> mtime and content
    cache,       \* _cache: script name -> (mtime, module)
    loader,      \* per thread: its position and locals inside _load_script
    crud,        \* the latest write_script / delete_script call and what it found
    rules,       \* config "compressor_rules"
    disabled,    \* config "disabled_compressors"
    url,         \* the URL handed to match_script / run
    matched,     \* the value match_script returned
    html,        \* the document handed to parse_dom
    config,      \* the values config.get returns for max_nodes and max_depth
    list_tree,   \* the tree handed to _truncate_long_lists
    truncated,   \* the tree _truncate_long_lists returned
    stage_in,    \* the nodes handed to one stage of a compressor on its own, or
                 \* the raw nodes of the walk before the current one
    stage_out    \* what that stage returned

pipeVars == <<pc, script, overrides, dom_nodes, simplified, filtered, result,
              again, roundtrip, before_nodes, diff, diff_all, diff_max_items>>

walkVars == <<elements, data_bid, earlier_bid, instances>>

threadVars == <<lock, tpc, call, outcome, drove, entry, fresh>>

browserVars == <<browser, tabs, page_doc, page, new_pages, downloads, events, pages_made>>

cacheVars == <<node_map, xpath_map, last_filtered, last_result>>

historyVars == <<calls, unlocked>>

sessVars == <<threadVars, browserVars, cacheVars, historyVars>>

mgrVars == <<files, cache, loader, crud, rules, disabled, url, matched>>

unitVars == <<html, config, list_tree, truncated, stage_in, stage_out>>

vars == <<pipeVars, walkVars, sessVars, mgrVars, unitVars>>

\* ---------------------------------------------------------------------
\* Bounds of the model
\* ---------------------------------------------------------------------
MaxNodes == 3        \* raw nodes of a page
MaxDepth == 2        \* deepest raw node
MaxDiffNodes == 2    \* raw nodes of each of the two pages that are compared
MaxOverride == 2     \* largest max_items / show_head a user override sets
MaxCap == 1          \* largest max_items a caller of diff_dom passes
MaxInstances == 4    \* element instances a document holds over its life
MaxCalls == 2        \* calls made to the session
MaxPages == 2        \* pages the browser creates
MaxDownloads == 1    \* downloads a session starts
MaxMtime == 2        \* modification times a file can carry
MaxCode == 2         \* distinct script contents that compile
MaxRules == 2        \* entries of compressor_rules

\* ---------------------------------------------------------------------
\* Generic sequence and text helpers (Python list / str primitives)
\* ---------------------------------------------------------------------
Range(s) == {s[i] : i \in 1..Len(s)}

RECURSIVE Flatten(_)
Flatten(ss) == IF ss = <<>> THEN <<>> ELSE Head(ss) \o Flatten(Tail(ss))

RECURSIVE SelectSeqRec(_, _)
SelectSeqRec(s, keep) ==
    IF s = <<>> THEN <<>>
    ELSE (IF keep[1] THEN <<Head(s)>> ELSE <<>>)
         \o SelectSeqRec(Tail(s), Tail(keep))

Min2(a, b) == IF a <= b THEN a ELSE b
Max2(a, b) == IF a >= b THEN a ELSE b

\* s[:k] of Python, k any integer
PySliceHead(s, k) ==
    IF k >= 0 THEN SubSeq(s, 1, Min2(k, Len(s)))
    ELSE SubSeq(s, 1, Max2(Len(s) + k, 0))

\* str.startswith
StartsWith(s, p) == Len(p) <= Len(s) /\ SubSeq(s, 1, Len(p)) = p

\* "sub in s" for strings
Contains(s, sub) ==
    \E i \in 0..(Len(s) - Len(sub)) : SubSeq(s, i + 1, i + Len(sub)) = sub

Whitespace == {" "}

RECURSIVE LStrip(_, _)
LStrip(s, chars) ==
    IF s # <<>> /\ Head(s) \in chars THEN LStrip(Tail(s), chars) ELSE s

RECURSIVE RStrip(_, _)
RStrip(s, chars) ==
    IF s # <<>> /\ s[Len(s)] \in chars
    THEN RStrip(SubSeq(s, 1, Len(s) - 1), chars) ELSE s

\* str.strip()
Strip(s) == RStrip(LStrip(s, Whitespace), Whitespace)

\* " ".join(parts)
RECURSIVE JoinSpace(_)
JoinSpace(parts) ==
    IF parts = <<>> THEN <<>>
    ELSE IF Len(parts) = 1 THEN parts[1]
    ELSE parts[1] \o <<" ">> \o JoinSpace(Tail(parts))

\* str(n) for n >= 0
Digit(d) == CASE d = 0 -> "0" [] d = 1 -> "1" [] d = 2 -> "2" [] d = 3 -> "3"
              [] d = 4 -> "4" [] d = 5 -> "5" [] d = 6 -> "6" [] d = 7 -> "7"
              [] d = 8 -> "8" [] d = 9 -> "9"

RECURSIVE NatStr(_)
NatStr(n) == IF n < 10 THEN <<Digit(n)>> ELSE NatStr(n \div 10) \o <<Digit(n % 10)>>

\* str(n) for any integer
IntStr(n) == IF n < 0 THEN <<"-">> \o NatStr(0 - n) ELSE NatStr(n)

\* ---------------------------------------------------------------------
\* compressors/default.py : constants
\* ---------------------------------------------------------------------
WRAPPER_TAGS ==
    {"div", "span", "section", "article", "main",
     "header", "footer", "aside", "figure", "figcaption",
     "nav", "details", "summary", "hgroup",
     "center", "font", "big", "nobr", "marquee",
     "thead", "tbody", "tfoot", "colgroup"}

TRANSPARENT_ROLES == {"none", "presentation"}
POPUP_ROLES == {"dialog", "alertdialog"}

\* tags of the model that contain "-" and (lower-cased) "dialog"
DashDialogTags == {"x-dialog"}

LAngle == "<|"   \* U+27E8
RAngle == "|>"   \* U+27E9

NoState == [k \in {} |-> ""]

\* ---------------------------------------------------------------------
\* compressors/default.py : tree conversion
\* ---------------------------------------------------------------------
\* {**n, "children": []}
TreeNode(n) ==
    [depth |-> n.depth, tag |-> n.tag, attrs |-> n.attrs, text |-> n.text,
     selector |-> n.selector, xpath |-> n.xpath, actions |-> n.actions,
     label |-> n.label, state |-> n.state, inlined |-> n.inlined,
     children |-> <<>>]

\* the children list of the node at `path` (a sequence of 1-based indices);
\* the empty path names the list of roots
RECURSIVE ChildrenAt(_, _)
ChildrenAt(forest, path) ==
    IF path = <<>> THEN forest
    ELSE ChildrenAt(forest[Head(path)].children, Tail(path))

\* parent["children"].append(tree_node), the parent named by its path
RECURSIVE AppendAt(_, _, _)
AppendAt(forest, path, node) ==
    IF path = <<>> THEN Append(forest, node)
    ELSE [forest EXCEPT ![Head(path)].children = AppendAt(@, Tail(path), node)]

\* PopStack with ">" for ">=": a node of equal depth stays on the stack
RECURSIVE PopStackStrict(_, _)
PopStackStrict(stack, d) ==
    IF Len(stack) > 1 /\ stack[Len(stack)].d > d
    THEN PopStackStrict(SubSeq(stack, 1, Len(stack) - 1), d)
    ELSE stack

\* while len(stack) > 1 and stack[-1][0] >= d: stack.pop()
RECURSIVE PopStack(_, _)
PopStack(stack, d) ==
    IF Len(stack) > 1 /\ stack[Len(stack)].d >= d
    THEN PopStack(SubSeq(stack, 1, Len(stack) - 1), d)
    ELSE stack

\* the loop of _flat_to_tree from node i on; a stack entry is the depth and
\* the path of the node it refers to (the bottom entry (-1, None) has the
\* empty path, which names the root list)
RECURSIVE FlatToTreeLoop(_, _, _, _)
FlatToTreeLoop(nodes, i, roots, stack) ==
    IF i > Len(nodes) THEN roots
    ELSE LET n      == nodes[i]
             st     == PopStack(stack, n.depth)
             parent == st[Len(st)].path
             pos    == Len(ChildrenAt(roots, parent)) + 1
         IN  FlatToTreeLoop(nodes, i + 1,
                            AppendAt(roots, parent, TreeNode(n)),
                            Append(st, [d |-> n.depth, path |-> parent \o <<pos>>]))

_flat_to_tree(nodes) ==
    FlatToTreeLoop(nodes, 1, <<>>, <<[d |-> -1, path |-> <<>>]>>)

\* the record _tree_to_flat emits for a node
FlatNode(node, hid, depth) ==
    [hid |-> hid, depth |-> depth, tag |-> node.tag, attrs |-> node.attrs,
     text |-> node.text, selector |-> node.selector, xpath |-> node.xpath,
     actions |-> node.actions, label |-> node.label, state |-> node.state,
     inlined |-> node.inlined]

\* WalkFlat emitting a node after its children instead of before them
RECURSIVE WalkFlatPostOrder(_, _, _, _)
WalkFlatPostOrder(nodes, i, depth, prefix) ==
    IF i > Len(nodes) THEN <<>>
    ELSE LET hid == prefix \o <<i>>
         IN  WalkFlatPostOrder(nodes[i].children, 1, depth + 1, hid)
             \o <<FlatNode(nodes[i], hid, depth)>>
             \o WalkFlatPostOrder(nodes, i + 1, depth, prefix)

\* _walk(nodes, depth, prefix) of _tree_to_flat, from the i-th node on
RECURSIVE WalkFlat(_, _, _, _)
WalkFlat(nodes, i, depth, prefix) ==
    IF i > Len(nodes) THEN <<>>
    ELSE LET hid == prefix \o <<i>>
         IN  <<FlatNode(nodes[i], hid, depth)>>
             \o WalkFlat(nodes[i].children, 1, depth + 1, hid)
             \o WalkFlat(nodes, i + 1, depth, prefix)

_tree_to_flat(roots) == WalkFlat(roots, 1, 0, <<>>)

\* ---------------------------------------------------------------------
\* compressors/default.py : simplification
\* ---------------------------------------------------------------------
\* _RE_TRANSPARENT_ROLE matches this item of the attribute string
IsTransparentRoleItem(item) == item[1] = "role" /\ item[2] \in TRANSPARENT_ROLES

\* _RE_ID_ATTR matches this item of the attribute string
IsIdItem(item) == item[1] = "id"

\* truthiness of st.get(key)
StateTruthy(st, key) == key \in DOMAIN st /\ st[key] # ""

\* _is_collapsible returning False for every node
NeverCollapsible(node) == FALSE

_is_collapsible(node) ==
    IF StateTruthy(node.state, "selected") THEN FALSE
    ELSE IF LAngle \in Range(node.text) /\ RAngle \in Range(node.text) THEN FALSE
    ELSE IF node.tag \in WRAPPER_TAGS THEN TRUE
    ELSE IF \E i \in 1..Len(node.attrs) : IsTransparentRoleItem(node.attrs[i]) THEN TRUE
    ELSE FALSE

\* the attribute string with the transparent-role and id items removed
_meaningful_attrs(attrs) ==
    SelectSeqRec(attrs, [i \in 1..Len(attrs) |->
                            ~IsTransparentRoleItem(attrs[i]) /\ ~IsIdItem(attrs[i])])

_children_text(node) ==
    JoinSpace(SelectSeqRec([i \in 1..Len(node.children) |-> node.children[i].text],
                           [i \in 1..Len(node.children) |-> node.children[i].text # <<>>]))

_text_overlap(parent_text, child_text) ==
    IF parent_text = <<>> \/ child_text = <<>> THEN FALSE
    ELSE LET p == Strip(parent_text)
             c == Strip(child_text)
             shorter == IF Len(c) <= Len(p) THEN c ELSE p
             longer  == IF Len(c) <= Len(p) THEN p ELSE c
         IN  IF p = <<>> \/ c = <<>> THEN FALSE
             ELSE IF p = c THEN TRUE
             ELSE Contains(longer, shorter) /\ Len(shorter) >= 8
                  /\ 2 * Len(shorter) > Len(longer)

\* the first text test of _simplify: the parent text repeats its children
DedupParentText(node_text, ct) ==
    /\ ct # <<>>
    /\ \/ node_text = ct
       \/ StartsWith(ct, node_text)
       \/ (StartsWith(node_text, ct) /\ 10 * Len(ct) > 8 * Len(node_text))

\* the second text test of _simplify, applied to one child
PruneChildText(node_text, child) ==
    IF child.text # <<>> /\ child.actions = <<>> /\ _text_overlap(node_text, child.text)
    THEN [child EXCEPT !.text = <<>>]
    ELSE child

RECURSIVE _simplify(_)
RECURSIVE SimplifyNode(_)

\* the body of the loop of _simplify for one node: the nodes it appends to result
SimplifyNode(node0) ==
    LET kids        == _simplify(node0.children)
        node        == [node0 EXCEPT !.children = kids]
        collapsible == _is_collapsible(node)
        n_children  == Len(kids)
        node_text   == IF node.text # <<>> /\ n_children > 0
                          /\ DedupParentText(node.text, _children_text(node))
                       THEN <<>> ELSE node.text
        kids2       == IF node_text # <<>> /\ n_children > 0
                       THEN [i \in 1..n_children |-> PruneChildText(node_text, kids[i])]
                       ELSE kids
        has_content == node_text # <<>> \/ _meaningful_attrs(node.attrs) # <<>>
    IN  IF collapsible /\ ~has_content /\ n_children = 0 THEN <<>>
        ELSE IF collapsible /\ ~has_content /\ n_children = 1 THEN <<kids2[1]>>
        ELSE IF collapsible /\ ~has_content /\ n_children > 1 THEN kids2
        ELSE <<[node EXCEPT !.text = node_text, !.children = kids2]>>

_simplify(children) ==
    Flatten([i \in 1..Len(children) |-> SimplifyNode(children[i])])

\* ---------------------------------------------------------------------
\* compressors/default.py : popups and long lists
\* ---------------------------------------------------------------------
_is_popup(node) ==
    \/ \E i \in 1..Len(node.attrs) :
          node.attrs[i][1] = "role" /\ node.attrs[i][2] \in POPUP_ROLES
    \/ node.tag \in DashDialogTags

RECURSIVE _count_nodes(_)
_count_nodes(roots) ==
    IF roots = <<>> THEN 0
    ELSE 1 + _count_nodes(Head(roots).children) + _count_nodes(Tail(roots))

\* f"··· {n} children"
PopupSummary(n) ==
    <<".", ".", ".", " ">> \o NatStr(n) \o <<" ", "c", "h", "i", "l", "d", "r", "e", "n">>

RECURSIVE _collapse_popups(_)
_collapse_popups(roots) ==
    [i \in 1..Len(roots) |->
        LET node == roots[i]
        IN  IF _is_popup(node) /\ node.children # <<>>
            THEN [node EXCEPT !.text = PopupSummary(_count_nodes(node.children)),
                              !.children = <<>>]
            ELSE [node EXCEPT !.children = _collapse_popups(node.children)]]

RECURSIVE _has_interactive(_)
_has_interactive(node) ==
    \/ node.actions # <<>>
    \/ \E i \in 1..Len(node.children) : _has_interactive(node.children[i])

\* f"+{total - show_head} more ({total} total)"
MoreText(total, show_head) ==
    <<"+">> \o IntStr(total - show_head) \o <<" ", "m", "o", "r", "e", " ", "(">>
    \o NatStr(total) \o <<" ", "t", "o", "t", "a", "l", ")">>

EllipsisTag == "..."   \* U+2026

\* the synthetic node _truncate_long_lists appends
Placeholder(total, show_head) ==
    [depth |-> 0, tag |-> EllipsisTag, attrs |-> <<>>,
     text |-> MoreText(total, show_head),
     selector |-> <<>>, xpath |-> <<>>, actions |-> <<>>, label |-> <<>>,
     state |-> NoState, inlined |-> FALSE, children |-> <<>>]

\* tag_freq[top_tag]: the largest number of children sharing one tag
TopTagCount(children) ==
    LET freq(t) == Cardinality({i \in 1..Len(children) : children[i].tag = t})
        tags    == {children[i].tag : i \in 1..Len(children)}
    IN  CHOOSE m \in {freq(t) : t \in tags} : \A t \in tags : freq(t) <= m

\* the three tests that let a child list be truncated
ShouldTruncate(children, max_items) ==
    LET n == Len(children)
        interactive_count ==
            Cardinality({i \in 1..n : _has_interactive(children[i])})
    IN  /\ n > max_items
        /\ ~(10 * TopTagCount(children) < 7 * n)
        /\ ~(10 * interactive_count > 3 * n)

RECURSIVE _truncate_long_lists(_, _, _)
_truncate_long_lists(roots, max_items, show_head) ==
    [i \in 1..Len(roots) |->
        LET children == _truncate_long_lists(roots[i].children, max_items, show_head)
        IN  IF ShouldTruncate(children, max_items)
            THEN [roots[i] EXCEPT !.children =
                     PySliceHead(children, show_head)
                     \o <<Placeholder(Len(children), show_head)>>]
            ELSE [roots[i] EXCEPT !.children = children]]

RECURSIVE _prune_empty_leaves(_)
RECURSIVE PruneNode(_)

PruneNode(node0) ==
    LET node == [node0 EXCEPT !.children = _prune_empty_leaves(node0.children)]
    IN  IF /\ node.children = <<>>
           /\ Strip(node.text) = <<>>
           /\ node.actions = <<>>
           /\ _meaningful_attrs(node.attrs) = <<>>
        THEN <<>>
        ELSE <<node>>

_prune_empty_leaves(roots) ==
    Flatten([i \in 1..Len(roots) |-> PruneNode(roots[i])])

\* ---------------------------------------------------------------------
\* compressors/default.py : process
\* ---------------------------------------------------------------------
SimplifyPasses == 10
DefaultMaxItems == 50
DefaultShowHead == 10

\* for _ in range(k): simplify, stop at the first pass that keeps the count
RECURSIVE SimplifyLoop(_, _)
SimplifyLoop(tree, k) ==
    IF k = 0 THEN tree
    ELSE LET next == _simplify(tree)
         IN  IF _count_nodes(next) = _count_nodes(tree) THEN next
             ELSE SimplifyLoop(next, k - 1)

\* stages 1-2 of every process function
SimplifiedTree(nodes) == SimplifyLoop(_flat_to_tree(nodes), SimplifyPasses)

\* stages 3-6 of every process function
FinishPipeline(tree, max_items, show_head) ==
    _tree_to_flat(
        _prune_empty_leaves(
            _truncate_long_lists(_collapse_popups(tree), max_items, show_head)))

\* compressors/default.py process(dom_nodes)
process(nodes) ==
    FinishPipeline(SimplifiedTree(nodes), DefaultMaxItems, DefaultShowHead)

\* ---------------------------------------------------------------------
\* compressor_manager.py : settings
\* ---------------------------------------------------------------------
\* SCRIPT_SETTINGS defaults of each built-in script ("default" declares none)
ScriptDefaults(name) ==
    CASE name = "google_search" ->
            [max_items |-> 30, show_head |-> 10, remove_footer |-> TRUE]
      [] name = "wikipedia" ->
            [max_items |-> 40, show_head |-> 15, skip_references |-> TRUE,
             remove_edit_links |-> TRUE]
      [] name = "youtube" ->
            [max_items |-> 20, show_head |-> 8, remove_miniplayer |-> TRUE,
             remove_guide |-> TRUE]
      [] name = "stackoverflow" ->
            [max_items |-> 30, show_head |-> 10, remove_sidebar |-> TRUE]
      [] OTHER -> NoState

\* result = defaults; result.update(user)
_resolve_settings(name, user) == user @@ ScriptDefaults(name)

\* cfg.get(key, default)
CfgGet(cfg, key, default) == IF key \in DOMAIN cfg THEN cfg[key] ELSE default

\* "needle in attrs" for the needles the scripts look for: the attribute
\* string contains the rendered item key="value"
HasItem(attrs, key, value) == \E i \in 1..Len(attrs) : attrs[i] = <<key, value>>

\* attribute values of the model that contain the given substring
SidebarValues == {"sidebar", "js-sidebar-zone"}
ConsentValues == {"js-consent-banner"}
MwValues == {"mw-navigation"}

HasValueIn(attrs, values) == \E i \in 1..Len(attrs) : attrs[i][2] \in values

\* ---------------------------------------------------------------------
\* compressors/google_search.py
\* ---------------------------------------------------------------------
GoogleNoiseTags == {"footer", "style", "script", "noscript", "svg", "path"}

GoogleNoiseTexts ==
    {<<"S", "i", "g", "n", " ", "i", "n">>,
     <<"S", "e", "t", "t", "i", "n", "g", "s">>,
     <<"P", "r", "i", "v", "a", "c", "y">>,
     <<"T", "e", "r", "m", "s">>,
     <<"A", "d", "v", "e", "r", "t", "i", "s", "i", "n", "g">>,
     <<"B", "u", "s", "i", "n", "e", "s", "s">>,
     <<"A", "b", "o", "u", "t">>,
     <<"H", "o", "w", " ", "S", "e", "a", "r", "c", "h", " ", "w", "o", "r", "k", "s">>}

GoogleIsNoise(node, cfg) ==
    \/ node.tag \in GoogleNoiseTags
    \/ Strip(node.text) \in GoogleNoiseTexts
    \/ (CfgGet(cfg, "remove_footer", TRUE) /\ HasItem(node.attrs, "role", "contentinfo"))

\* ---------------------------------------------------------------------
\* compressors/youtube.py
\* ---------------------------------------------------------------------
YoutubeNoiseTags == {"footer", "style", "script", "noscript", "svg", "path"}

YoutubeNoiseTexts ==
    {<<"T", "e", "r", "m", "s">>,
     <<"P", "r", "i", "v", "a", "c", "y">>,
     <<"P", "o", "l", "i", "c", "y", " ", "&", " ", "S", "a", "f", "e", "t", "y">>,
     <<"H", "o", "w", " ", "Y", "o", "u", "T", "u", "b", "e", " ", "w", "o", "r", "k", "s">>,
     <<"T", "e", "s", "t", " ", "n", "e", "w", " ", "f", "e", "a", "t", "u", "r", "e", "s">>,
     <<"N", "F", "L", " ", "S", "u", "n", "d", "a", "y", " ", "T", "i", "c", "k", "e", "t">>}

\* tags of the model that contain "ytd-miniplayer" or "ytd-popup"
MiniplayerTags == {"ytd-miniplayer", "ytd-popup-container"}
\* tags of the model that contain "tp-yt-app-drawer" or "ytd-guide"
GuideTags == {"tp-yt-app-drawer", "ytd-guide-renderer"}

YoutubeIsNoise(node, cfg) ==
    \/ node.tag \in YoutubeNoiseTags
    \/ Strip(node.text) \in YoutubeNoiseTexts
    \/ (CfgGet(cfg, "remove_miniplayer", TRUE) /\ node.tag \in MiniplayerTags)
    \/ (CfgGet(cfg, "remove_guide", TRUE) /\ node.tag \in GuideTags)

\* ---------------------------------------------------------------------
\* compressors/stackoverflow.py
\* ---------------------------------------------------------------------
StackNoiseTags == {"footer", "style", "script", "noscript", "svg"}

StackNoiseTexts ==
    {<<"T", "e", "a", "m", "s">>,
     <<"A", "d", "v", "e", "r", "t", "i", "s", "i", "n", "g">>,
     <<"T", "a", "l", "e", "n", "t">>,
     <<"C", "o", "m", "p", "a", "n", "y">>,
     <<"S", "t", "a", "c", "k", " ", "O", "v", "e", "r", "f", "l", "o", "w", " ", "f", "o", "r", " ", "T", "e", "a", "m", "s">>}

StackIsNoise(node, cfg) ==
    \/ node.tag \in StackNoiseTags
    \/ Strip(node.text) \in StackNoiseTexts
    \/ (CfgGet(cfg, "remove_sidebar", TRUE) /\ HasValueIn(node.attrs, SidebarValues))
    \/ HasValueIn(node.attrs, ConsentValues)

\* ---------------------------------------------------------------------
\* compressors/wikipedia.py
\* ---------------------------------------------------------------------
WikiNoiseTags == {"footer", "style", "script", "noscript", "svg", "sup"}

_SKIP_SECTIONS ==
    {<<"E", "x", "t", "e", "r", "n", "a", "l", " ", "l", "i", "n", "k", "s">>,
     <<"R", "e", "f", "e", "r", "e", "n", "c", "e", "s">>,
     <<"N", "o", "t", "e", "s">>,
     <<"C", "i", "t", "a", "t", "i", "o", "n", "s">>,
     <<"F", "u", "r", "t", "h", "e", "r", " ", "r", "e", "a", "d", "i", "n", "g">>,
     <<"B", "i", "b", "l", "i", "o", "g", "r", "a", "p", "h", "y">>}

EditText == <<"[", "e", "d", "i", "t", "]">>
CitationNeededText == <<"[", "c", "i", "t", "a", "t", "i", "o", "n", " ", "n", "e", "e", "d", "e", "d", "]">>

WikiIsNoise(node, cfg) ==
    \/ node.tag \in WikiNoiseTags
    \/ (HasItem(node.attrs, "role", "navigation") /\ ~HasValueIn(node.attrs, MwValues))
    \/ (CfgGet(cfg, "remove_edit_links", TRUE)
        /\ Strip(node.text) \in {EditText, CitationNeededText})

\* text.strip().rstrip("[edit]").strip() in _SKIP_SECTIONS
_should_skip_section(text) ==
    Strip(RStrip(Strip(text), Range(EditText))) \in _SKIP_SECTIONS

NoSkip == -1   \* skip_depth = None

\* the section-skipping loop of the Wikipedia process, from node i on
RECURSIVE SkipSections(_, _, _)
SkipSections(nodes, i, skip_depth) ==
    IF i > Len(nodes) THEN <<>>
    ELSE LET n == nodes[i]
             heading == n.tag \in {"h2", "h3"}
         IN  IF heading /\ _should_skip_section(n.text)
             THEN SkipSections(nodes, i + 1, n.depth)
             ELSE IF skip_depth # NoSkip
             THEN IF heading /\ n.depth <= skip_depth
                  THEN <<n>> \o SkipSections(nodes, i + 1, NoSkip)
                  ELSE SkipSections(nodes, i + 1, skip_depth)
             ELSE <<n>> \o SkipSections(nodes, i + 1, skip_depth)

\* ---------------------------------------------------------------------
\* The process function of each built-in script
\* ---------------------------------------------------------------------
IsNoise(name, node, cfg) ==
    CASE name = "google_search" -> GoogleIsNoise(node, cfg)
      [] name = "youtube"       -> YoutubeIsNoise(node, cfg)
      [] name = "stackoverflow" -> StackIsNoise(node, cfg)
      [] name = "wikipedia"     -> WikiIsNoise(node, cfg)

\* filtered = [n for n in dom_nodes if not _is_noise(n, cfg)]
PreFilter(name, nodes, cfg) ==
    LET kept == SelectSeqRec(nodes, [i \in 1..Len(nodes) |-> ~IsNoise(name, nodes[i], cfg)])
    IN  IF name = "wikipedia" /\ CfgGet(cfg, "skip_references", TRUE)
        THEN SkipSections(kept, 1, NoSkip)
        ELSE kept

\* the value each script passes as the default of cfg.get("max_items", ...)
FallbackMaxItems(name) ==
    CASE name = "wikipedia" -> 40 [] name = "youtube" -> 20 [] OTHER -> 30

\* the value each script passes as the default of cfg.get("show_head", ...)
FallbackShowHead(name) ==
    CASE name = "wikipedia" -> 15 [] name = "youtube" -> 8 [] OTHER -> 10

\* process(dom_nodes, settings) of a specialised script
ScriptProcess(name, nodes, cfg) ==
    FinishPipeline(SimplifiedTree(PreFilter(name, nodes, cfg)),
                   CfgGet(cfg, "max_items", FallbackMaxItems(name)),
                   CfgGet(cfg, "show_head", FallbackShowHead(name)))

BuiltinScripts == {"default", "google_search", "wikipedia", "youtube", "stackoverflow"}

\* the filtered list compressor_manager.run obtains: the default script
\* takes one argument and never sees the settings
RunProcess(name, nodes, user) ==
    IF name = "default" THEN process(nodes)
    ELSE ScriptProcess(name, nodes, _resolve_settings(name, user))

\* ---------------------------------------------------------------------
\* dom_parser.py : format_dom_tree and assemble_result
\* ---------------------------------------------------------------------
\* one rendered line of the tree; the segments are kept apart, an empty
\* payload standing for an omitted segment
TreeLine(n) ==
    [indent |-> 2 * n.depth, hid |-> n.hid, tag |-> n.tag, attrs |-> n.attrs,
     actions |-> n.actions, state |-> n.state, text |-> n.text]

\* the lines of format_dom_tree(nodes), in order
format_dom_tree(nodes) ==
    SelectSeqRec([i \in 1..Len(nodes) |-> TreeLine(nodes[i])],
                 [i \in 1..Len(nodes) |-> ~nodes[i].inlined])

\* a dict comprehension {keys[i]: vals[i] for i}: a later entry overwrites
\* an earlier one with the same key
DictOf(keys, vals) ==
    [k \in Range(keys) |->
        LET last == CHOOSE i \in 1..Len(keys) :
                       /\ keys[i] = k
                       /\ \A j \in (i + 1)..Len(keys) : keys[j] # k
        IN  vals[last]]

\* n["label"] or n["text"]
LabelOrText(n) == IF n.label # <<>> THEN n.label ELSE n.text

InteractiveEntry(n) ==
    [hid |-> n.hid, depth |-> n.depth, tag |-> n.tag, label |-> LabelOrText(n),
     selector |-> n.selector, xpath |-> n.xpath, actions |-> n.actions,
     state |-> n.state]

\* InteractiveOf stopping one node short of the end of the list
InteractiveOfDropLast(filtered_nodes) ==
    [i \in 1..(Len(filtered_nodes) - 1) |-> InteractiveEntry(filtered_nodes[i])]

\* the "interactive" list comprehension of assemble_result
InteractiveOf(filtered_nodes) ==
    [i \in 1..Len(filtered_nodes) |-> InteractiveEntry(filtered_nodes[i])]

\* [n[field] for n in nodes]
FieldOf(nodes, field) == [i \in 1..Len(nodes) |-> nodes[i][field]]

assemble_result(raw_nodes, filtered_nodes) ==
    [tree        |-> format_dom_tree(filtered_nodes),
     xpath_map   |-> DictOf(FieldOf(filtered_nodes, "hid"), FieldOf(filtered_nodes, "xpath")),
     node_map    |-> DictOf(FieldOf(filtered_nodes, "hid"), FieldOf(filtered_nodes, "selector")),
     interactive |-> InteractiveOf(filtered_nodes),
     stats       |-> [nodes_before_filter |-> Len(raw_nodes),
                      nodes_after_filter  |-> Len(filtered_nodes)]]

\* ---------------------------------------------------------------------
\* dom_parser.py : diff_dom
\* ---------------------------------------------------------------------
DiffMaxItems == 20
BriefLabelLen == 120
DiffValueLen == 80

\* n.get(field, default)
Get(n, field, default) == IF field \in DOMAIN n THEN n[field] ELSE default

\* n.get(field) or default, for a text-valued field
GetOr(n, field, default) ==
    IF field \in DOMAIN n /\ n[field] # <<>> THEN n[field] ELSE default

\* _build_map without the "if sel" test
BuildMapKeepEmpty(nodes) == DictOf(FieldOf(nodes, "selector"), nodes)

\* _build_map: selector -> node, nodes without a selector skipped
_build_map(nodes) ==
    LET kept == SelectSeqRec(nodes, [i \in 1..Len(nodes) |->
                                        GetOr(nodes[i], "selector", <<>>) # <<>>])
    IN  DictOf(FieldOf(kept, "selector"), kept)

_brief(n) ==
    [hid     |-> Get(n, "hid", <<>>),
     tag     |-> Get(n, "tag", ""),
     label   |-> PySliceHead(GetOr(n, "label", GetOr(n, "text", <<>>)), BriefLabelLen),
     actions |-> Get(n, "actions", <<>>)]

\* the dotted string of a hid
RECURSIVE HidStr(_)
HidStr(hid) ==
    IF hid = <<>> THEN <<>>
    ELSE IF Len(hid) = 1 THEN NatStr(hid[1])
    ELSE NatStr(hid[1]) \o <<".">> \o HidStr(Tail(hid))

\* "/".join(actions)
RECURSIVE JoinSlash(_)
JoinSlash(parts) ==
    IF parts = <<>> THEN <<>>
    ELSE IF Len(parts) = 1 THEN <<parts[1]>>
    ELSE <<parts[1], "/">> \o JoinSlash(Tail(parts))

ChangeEntry(an, label, field, before, after) ==
    [hid |-> Get(an, "hid", <<>>), tag |-> Get(an, "tag", ""),
     label |-> PySliceHead(label, BriefLabelLen),
     field |-> field, before |-> before, after |-> after]

\* str(v) if v is not None else "", for the value of a state key
StateStr(st, k) == IF k \in DOMAIN st THEN <<st[k]>> ELSE <<>>

\* every ordering of a finite set: the iteration order of a Python set
Orders(S) ==
    {f \in [1..Cardinality(S) -> S] : \A i, j \in 1..Cardinality(S) : f[i] = f[j] => i = j}

\* the "HID change" block of diff_dom for one common key
HidChange(bn, an) ==
    LET bh == Get(bn, "hid", <<>>)
        ah == Get(an, "hid", <<>>)
    IN  IF bh # ah
        THEN <<ChangeEntry(an, GetOr(an, "label", <<>>), <<"hid">>, HidStr(bh), HidStr(ah))>>
        ELSE <<>>

\* TextChange reading the label of the earlier node for its text
TextChangeFromLabel(bn, an) ==
    LET bt == GetOr(bn, "label", <<>>)
        at == GetOr(an, "text", <<>>)
    IN  IF bt # at
        THEN <<ChangeEntry(an, GetOr(an, "label", at), <<"text">>,
                           PySliceHead(bt, DiffValueLen), PySliceHead(at, DiffValueLen))>>
        ELSE <<>>

\* the "Text change" block of diff_dom for one common key
TextChange(bn, an) ==
    LET bt == GetOr(bn, "text", <<>>)
        at == GetOr(an, "text", <<>>)
    IN  IF bt # at
        THEN <<ChangeEntry(an, GetOr(an, "label", at), <<"text">>,
                           PySliceHead(bt, DiffValueLen), PySliceHead(at, DiffValueLen))>>
        ELSE <<>>

\* StateChanges comparing only the keys both nodes carry
StateChangesSharedKeys(bn, an, state_keys) ==
    LET bs == Get(bn, "state", NoState)
        as == Get(an, "state", NoState)
    IN  Flatten([i \in 1..Len(state_keys) |->
            IF state_keys[i] \in DOMAIN bs /\ state_keys[i] \in DOMAIN as
               /\ bs[state_keys[i]] # as[state_keys[i]]
            THEN <<ChangeEntry(an, GetOr(an, "label", <<>>), <<"state", state_keys[i]>>,
                               StateStr(bs, state_keys[i]), StateStr(as, state_keys[i]))>>
            ELSE <<>>])

\* the "State change" block; state_keys is all_state_keys in iteration order
StateChanges(bn, an, state_keys) ==
    LET bs == Get(bn, "state", NoState)
        as == Get(an, "state", NoState)
        StateDiffers(k) ==
            ~(k \in DOMAIN bs <=> k \in DOMAIN as)
            \/ (k \in DOMAIN bs /\ k \in DOMAIN as /\ bs[k] # as[k])
    IN  Flatten([i \in 1..Len(state_keys) |->
            IF StateDiffers(state_keys[i])
            THEN <<ChangeEntry(an, GetOr(an, "label", <<>>), <<"state", state_keys[i]>>,
                               StateStr(bs, state_keys[i]), StateStr(as, state_keys[i]))>>
            ELSE <<>>])

\* the "Actions change" block of diff_dom for one common key
ActionsChange(bn, an) ==
    LET ba == Get(bn, "actions", <<>>)
        aa == Get(an, "actions", <<>>)
    IN  IF ba # aa
        THEN <<ChangeEntry(an, GetOr(an, "label", <<>>), <<"actions">>,
                           JoinSlash(ba), JoinSlash(aa))>>
        ELSE <<>>

\* the entries the loop body of diff_dom appends for one common key
ChangesFor(bn, an, state_keys) ==
    HidChange(bn, an) \o TextChange(bn, an) \o StateChanges(bn, an, state_keys)
    \o ActionsChange(bn, an)

\* the summary line, kept as its parts: which count, and the count
DiffSummary(added_all, removed_all, changed_all) ==
    (IF added_all # <<>> THEN <<<<"added", Len(added_all)>>>> ELSE <<>>)
    \o (IF removed_all # <<>> THEN <<<<"removed", Len(removed_all)>>>> ELSE <<>>)
    \o (IF changed_all # <<>> THEN <<<<"changed", Len(changed_all)>>>> ELSE <<>>)

\* the three lists of diff_dom before capping; added_order, removed_order and
\* common_order are the iteration orders of the three key sets, state_order
\* the iteration order of the state keys
DiffLists(before, after, added_order, removed_order, common_order, state_order) ==
    LET bmap == _build_map(before)
        amap == _build_map(after)
        KeysOf(bn, an) ==
            SelectSeqRec(state_order,
                [i \in 1..Len(state_order) |->
                    state_order[i] \in DOMAIN Get(bn, "state", NoState)
                                       \cup DOMAIN Get(an, "state", NoState)])
    IN  [added_all   |-> [i \in 1..Len(added_order) |-> _brief(amap[added_order[i]])],
         removed_all |-> [i \in 1..Len(removed_order) |-> _brief(bmap[removed_order[i]])],
         changed_all |-> Flatten([i \in 1..Len(common_order) |->
                            ChangesFor(bmap[common_order[i]], amap[common_order[i]],
                                       KeysOf(bmap[common_order[i]], amap[common_order[i]]))])]

\* DiffReturn taking has_changes from the capped lists
DiffReturnFlagAfterCap(all, max_items) ==
    [has_changes |-> PySliceHead(all.added_all, max_items) # <<>>
                     \/ PySliceHead(all.removed_all, max_items) # <<>>
                     \/ PySliceHead(all.changed_all, max_items) # <<>>,
     summary     |-> DiffSummary(all.added_all, all.removed_all, all.changed_all),
     added       |-> PySliceHead(all.added_all, max_items),
     removed     |-> PySliceHead(all.removed_all, max_items),
     changed     |-> PySliceHead(all.changed_all, max_items)]

\* the value diff_dom returns, from its three uncapped lists
DiffReturn(all, max_items) ==
    [has_changes |-> all.added_all # <<>> \/ all.removed_all # <<>> \/ all.changed_all # <<>>,
     summary     |-> DiffSummary(all.added_all, all.removed_all, all.changed_all),
     added       |-> PySliceHead(all.added_all, max_items),
     removed     |-> PySliceHead(all.removed_all, max_items),
     changed     |-> PySliceHead(all.changed_all, max_items)]

\* the selectors that key a node list
Keys(nodes) == DOMAIN _build_map(nodes)

\* ---------------------------------------------------------------------
\* Raw nodes the walker hands to the manager
\* ---------------------------------------------------------------------
\* '[data-bid="N"]'
BidSelector(n) == <<"[data-bid=">> \o NatStr(n) \o <<"]">>

\* the absolute path locator of the N-th element
XPath(n) == <<"/html/body/*[">> \o NatStr(n) \o <<"]">>

Kind(tag, attrs, text, label, actions, state, inlined) ==
    [tag |-> tag, attrs |-> attrs, text |-> text, label |-> label,
     actions |-> actions, state |-> state, inlined |-> inlined]

TextA == <<"a">>
TextB == <<"b">>

EmptyDiv     == Kind("div", <<>>, <<>>, <<>>, <<>>, NoState, FALSE)
ClickableDiv == Kind("div", <<>>, <<>>, <<>>, <<"click">>, NoState, FALSE)
ParaA        == Kind("p", <<>>, TextA, TextA, <<>>, NoState, FALSE)
SpanA        == Kind("span", <<>>, TextA, TextA, <<>>, NoState, FALSE)
ItemB        == Kind("li", <<>>, TextB, TextB, <<>>, NoState, FALSE)
LinkB        == Kind("a", <<<<"href", "">>>>, TextB, TextB, <<"click">>, NoState, FALSE)
InlinedLink  == Kind("a", <<<<"href", "">>>>, <<>>, TextB, <<"click">>, NoState, TRUE)
Dialog       == Kind("div", <<<<"role", "dialog">>>>, <<>>, <<>>, <<>>, NoState, FALSE)
List         == Kind("ul", <<>>, <<>>, <<>>, <<>>, NoState, FALSE)
DialogTag    == Kind("dialog", <<>>, <<>>, <<>>, <<>>, NoState, FALSE)
Footer       == Kind("footer", <<>>, TextA, TextA, <<>>, NoState, FALSE)
Checkbox     == Kind("input", <<<<"type", "checkbox">>>>, <<>>, TextA, <<"click">>,
                     [checked |-> "true"], FALSE)
ToggleOff    == Kind("button", <<>>, TextA, TextA, <<"click">>,
                     [k \in {"aria-expanded"} |-> "false"], FALSE)
ToggleOn     == Kind("button", <<>>, TextA, TextA, <<"click">>,
                     [k \in {"aria-expanded"} |-> "true"], FALSE)

\* the raw node the walker emits for an element: selector and xpath name
\* the element, depth is its depth below <body>
RawNode(kind, element, depth) ==
    [depth |-> depth, tag |-> kind.tag, attrs |-> kind.attrs, text |-> kind.text,
     selector |-> IF element = 0 THEN <<>> ELSE BidSelector(element),
     xpath |-> IF element = 0 THEN <<>> ELSE XPath(element),
     actions |-> kind.actions, label |-> kind.label, state |-> kind.state,
     inlined |-> kind.inlined]

\* depth sequences of a pre-order walk: the first node at depth 0, each
\* node at most one level below the node before it
WalkDepths(len, maxDepth) ==
    {ds \in [1..len -> 0..maxDepth] :
        ds[1] = 0 /\ \A i \in 2..len : ds[i] <= ds[i - 1] + 1}

\* the raw list whose i-th node is element i, of kind ks[i] at depth ds[i]
RawList(ks, ds) == [i \in 1..Len(ks) |-> RawNode(ks[i], i, ds[i])]

\* the raw list whose i-th node renders element cs[i][2] as kind cs[i][1]
\* (element 0 carries no selector)
ElementList(cs, ds) == [i \in 1..Len(cs) |-> RawNode(cs[i][1], cs[i][2], ds[i])]

NoResult == [tree |-> <<>>, xpath_map |-> <<>>, node_map |-> <<>>,
             interactive |-> <<>>,
             stats |-> [nodes_before_filter |-> 0, nodes_after_filter |-> 0]]

NoDiff == [has_changes |-> FALSE, summary |-> <<>>,
           added |-> <<>>, removed |-> <<>>, changed |-> <<>>]

NoDiffAll == [added_all |-> <<>>, removed_all |-> <<>>, changed_all |-> <<>>]

\* ---------------------------------------------------------------------
\* browser_manager.py : _inject_selectors, the data-bid of live elements
\* ---------------------------------------------------------------------
\* a function with no argument: no element carries a data-bid
NoBids == [e \in {} |-> 0]

\* ---------------------------------------------------------------------
\* browser_manager.py : BrowserManager, one session
\* ---------------------------------------------------------------------
Threads == {"t1", "t2"}
NoThread == "none"
NoPage == 0

\* the documents a page can show
Docs == {"siteA", "siteB"}
BlankDoc == "blank"

\* the raw nodes the walker returns for a document
DocNodes(doc) ==
    CASE doc = "siteA" -> RawList(<<LinkB>>, <<0>>)
      [] doc = "siteB" -> RawList(<<List, ItemB, ItemB>>, <<0, 1, 1>>)
      [] OTHER -> <<>>

\* config "compressor_rules": siteB is routed to a site script
ScriptFor(doc) == IF doc = "siteB" THEN "google_search" ELSE "default"

\* config "compressor_settings" of the session
SessionSettings(name) ==
    IF name = "google_search" THEN [max_items |-> 1, show_head |-> 1] ELSE NoState

\* compressor_manager.run(url, dom_nodes, html_len) for a document
RunFor(doc) ==
    assemble_result(DocNodes(doc),
                    RunProcess(ScriptFor(doc), DocNodes(doc),
                               SessionSettings(ScriptFor(doc))))

\* a cached value: what was stored, and the _refresh_dom call and the page
\* it came from (call 0: set by __init__ or close)
Cached(n, p, v) == [call |-> n, of |-> p, value |-> v]
Empty == Cached(0, NoPage, <<>>)

\* a call: the operation, its arguments, its number among the calls made,
\* and for benchmark whether it started a Playwright of its own
NoCall == [op |-> "none", node_id |-> <<>>, refresh_dom |-> TRUE,
           url |-> BlankDoc, tab_id |-> 0, n |-> 0, own_pw |-> FALSE]

\* the cached state and the active page a call finds when it takes the lock
NoEntry == [node_map |-> Empty, xpath_map |-> Empty, last_filtered |-> Empty,
            last_result |-> Empty, page |-> NoPage, browser |-> FALSE]

\* ---------------------------------------------------------------------
\* compressor_manager.py : the scripts directory and the module cache
\* ---------------------------------------------------------------------
\* OFFICIAL_SCRIPTS
OFFICIAL_SCRIPTS == {"google_search", "wikipedia", "youtube", "github",
                     "stackoverflow", "amazon", "hackernews"}

\* the content of a script file: v tells contents apart (0: as shipped),
\* compiles whether compile() accepts it, proc what its process does
\* ("builtin", "template", "raises", or "none": no process attribute),
\* patterns its URL_PATTERNS
Code(v, compiles, proc, patterns) ==
    [v |-> v, compiles |-> compiles, proc |-> proc, patterns |-> patterns]

\* a file of the directory
File(mtime, code) == [mtime |-> mtime, code |-> code]

NoFile == [mtime |-> 0, code |-> Code(0, FALSE, "none", <<>>)]

\* the module exec_module builds from a content
ModuleOf(code) == [v |-> code.v, proc |-> code.proc, patterns |-> code.patterns]

NoModule == [v |-> 0 - 1, proc |-> "none", patterns |-> <<>>]

\* an entry of _cache; mtime 0: no entry
CacheEntry(mtime, mod) == [mtime |-> mtime, mod |-> mod]

NoCacheEntry == CacheEntry(0, NoModule)

\* the names callers pass to write_script, delete_script and _load_script
ScriptNames == {"default", "google_search", "__init__", "mine", "./default"}

\* os.path.join(_COMPRESSOR_DIR, f"{name}.py"): the file the path names; a
\* "./" in front of a name stays in the same directory
FileOf(name) == IF name = "./default" THEN "default" ELSE name

\* the file names the directory can hold
FileNames == {FileOf(n) : n \in ScriptNames}

\* the directory as shipped
ShippedFiles ==
    [f \in FileNames |->
        CASE f = "default" -> File(1, Code(0, TRUE, "builtin", <<>>))
          [] f = "google_search" ->
                File(1, Code(0, TRUE, "builtin", <<<<"*", "g", "*">>>>))
          [] OTHER -> NoFile]

\* os.path.isfile(path)
IsFile(name) == files[FileOf(name)] # NoFile

Threads2 == {"session", "benchmark"}

\* a thread outside _load_script
Idle == [pc |-> "idle", name |-> "", mtime |-> 0, mod |-> NoModule,
         out |-> "none", got |-> NoModule]

\* no write_script or delete_script call has been made
NoLast == [op |-> "none", name |-> "", code |-> NoFile.code, outcome |-> "none"]

\* _cache = {}
EmptyCache == [n \in ScriptNames |-> NoCacheEntry]

\* no call is on record
NoCrud == [call |-> NoLast, files |-> ShippedFiles, cache |-> EmptyCache]

\* no document and no tree are given to a stage on its own
NoHtml == <<>>

\* config.py DEFAULTS, the keys of the DOM walker
DEFAULTS == [max_nodes |-> 20000, max_depth |-> 50]

\* no stage is run on its own
NotRun == [ran |-> FALSE, nodes |-> <<>>]

\* the stage returned these nodes
Returned(nodes) == [ran |-> TRUE, nodes |-> nodes]

NoStage ==
    /\ stage_in = <<>>
    /\ stage_out = NotRun

NoUnit ==
    /\ html = NoHtml
    /\ config = DEFAULTS
    /\ list_tree = <<>>
    /\ truncated = <<>>
    /\ NoStage

\* the state of the module when it is imported
NoManager ==
    /\ files = ShippedFiles
    /\ cache = EmptyCache
    /\ loader = [t \in Threads2 |-> Idle]
    /\ crud = NoCrud
    /\ rules = <<>>
    /\ disabled = {}
    /\ url = <<>>
    /\ matched = ""

\* the contents a caller or an editor can put into a script file
GoodCodes == {Code(v, TRUE, "template", <<>>) : v \in 1..MaxCode}

BrokenCode == Code(MaxCode + 1, FALSE, "none", <<>>)

Codes == GoodCodes \cup {BrokenCode}

Mtimes == 1..MaxMtime

\* the names _load_script is called with
LoadNames == {"default", "mine"}

\* the files an editor outside the program changes
Editable == {"mine"}

\* the name guard of write_script
WriteRefuses(name) == name = "default" \/ name \in OFFICIAL_SCRIPTS

\* the name guard of delete_script
DeleteRefuses(name) ==
    name \in {"default", "__init__"} \/ name \in OFFICIAL_SCRIPTS

\* a write that does not compile the code
CompiledNever(code) == TRUE

\* compile(code, f"{name}.py", "exec") before the file is opened
CompiledFirst(code) == code.compiles

\* the test that lets _load_script answer from _cache
CacheHit(cached, mtime) == cached # NoCacheEntry /\ cached.mtime = mtime

\* a thread is between the cache check and the cache store of _load_script
InSection(t) == loader[t].pc \in {"exec", "store"}

\* _load_script has no lock: a thread may always enter
MayLoad(t, name) == TRUE

\* write_script(name, code), reached through PUT /api/compressors/<name>;
\* mtime is the time the file system stamps on the new file
write_script(name, code, mtime) ==
    /\ crud' = [call |-> [op |-> "write", name |-> name, code |-> code,
                          outcome |-> IF WriteRefuses(name) THEN "ValueError"
                                      ELSE IF ~CompiledFirst(code)
                                           THEN "SyntaxError" ELSE "ok"],
                files |-> files, cache |-> cache]
    /\ IF WriteRefuses(name) \/ ~CompiledFirst(code)
       THEN UNCHANGED <<files, cache>>
       ELSE /\ files' = [files EXCEPT ![FileOf(name)] = File(mtime, code)]
            /\ cache' = [cache EXCEPT ![name] = NoCacheEntry]
    /\ UNCHANGED <<loader, rules, disabled, url, matched>>
    /\ UNCHANGED <<pipeVars, walkVars, sessVars, unitVars>>

\* delete_script(name), reached through DELETE /api/compressors/<name>
delete_script(name) ==
    /\ crud' = [call |-> [op |-> "delete", name |-> name, code |-> NoFile.code,
                          outcome |-> IF DeleteRefuses(name) \/ ~IsFile(name)
                                      THEN "ValueError" ELSE "ok"],
                files |-> files, cache |-> cache]
    /\ IF DeleteRefuses(name) \/ ~IsFile(name)
       THEN UNCHANGED <<files, cache>>
       ELSE /\ files' = [files EXCEPT ![FileOf(name)] = NoFile]
            /\ cache' = [cache EXCEPT ![name] = NoCacheEntry]
    /\ UNCHANGED <<loader, rules, disabled, url, matched>>
    /\ UNCHANGED <<pipeVars, walkVars, sessVars, unitVars>>

\* an editor outside the program replaces the content of a script file; the
\* file system gives the file a modification time other than the one it had
Modify(f, code, mtime) ==
    /\ files[f] # NoFile
    /\ code # files[f].code
    /\ mtime # files[f].mtime
    /\ files' = [files EXCEPT ![f] = File(mtime, code)]
    /\ crud' = NoCrud
    /\ UNCHANGED <<cache, loader, rules, disabled, url, matched>>
    /\ UNCHANGED <<pipeVars, walkVars, sessVars, unitVars>>

\* a thread calls _load_script(name)
LoadEnter(t, name) ==
    /\ loader[t].pc = "idle"
    /\ MayLoad(t, name)
    /\ loader' = [loader EXCEPT ![t] = [Idle EXCEPT !.pc = "check",
                                                    !.name = name]]
    /\ UNCHANGED <<files, cache, crud, rules, disabled, url, matched>>
    /\ UNCHANGED <<pipeVars, walkVars, sessVars, unitVars>>

\* _load_script, lines 80-87: the file test, the mtime and the cache check
LoadCheck(t) ==
    LET name == loader[t].name
        mtime == files[FileOf(name)].mtime
    IN  /\ loader[t].pc = "check"
        /\ IF ~IsFile(name)
           THEN /\ cache' = [cache EXCEPT ![name] = NoCacheEntry]
                /\ loader' = [loader EXCEPT ![t].pc = "returned",
                                            ![t].out = "None"]
           ELSE /\ UNCHANGED cache
                /\ IF CacheHit(cache[name], mtime)
                   THEN loader' = [loader EXCEPT ![t].pc = "returned",
                                                 ![t].out = "module",
                                                 ![t].got = cache[name].mod]
                   ELSE loader' = [loader EXCEPT ![t].pc = "exec",
                                                 ![t].mtime = mtime]
        /\ crud' = NoCrud
        /\ UNCHANGED <<files, rules, disabled, url, matched>>
        /\ UNCHANGED <<pipeVars, walkVars, sessVars, unitVars>>

\* _load_script, lines 89-94: spec_from_file_location and exec_module read
\* and execute the file as it is now
LoadExec(t) ==
    LET name == loader[t].name
        code == files[FileOf(name)].code
    IN  /\ loader[t].pc = "exec"
        /\ loader' = [loader EXCEPT ![t] =
              IF ~IsFile(name)
              THEN [@ EXCEPT !.pc = "returned", !.out = "FileNotFoundError"]
              ELSE IF ~code.compiles
                   THEN [@ EXCEPT !.pc = "returned", !.out = "SyntaxError"]
                   ELSE [@ EXCEPT !.pc = "store", !.mod = ModuleOf(code)]]
        /\ UNCHANGED <<files, cache, crud, rules, disabled, url, matched>>
        /\ UNCHANGED <<pipeVars, walkVars, sessVars, unitVars>>

\* _load_script, lines 96-97: _cache[name] = (mtime, mod); return mod
LoadStore(t) ==
    /\ loader[t].pc = "store"
    /\ cache' = [cache EXCEPT ![loader[t].name] =
                    CacheEntry(loader[t].mtime, loader[t].mod)]
    /\ loader' = [loader EXCEPT ![t].pc = "returned", ![t].out = "module",
                                ![t].got = loader[t].mod]
    /\ crud' = NoCrud
    /\ UNCHANGED <<files, rules, disabled, url, matched>>
    /\ UNCHANGED <<pipeVars, walkVars, sessVars, unitVars>>

\* the caller takes the value _load_script returned
LoadLeave(t) ==
    /\ loader[t].pc = "returned"
    /\ loader' = [loader EXCEPT ![t] = Idle]
    /\ UNCHANGED <<files, cache, crud, rules, disabled, url, matched>>
    /\ UNCHANGED <<pipeVars, walkVars, sessVars, unitVars>>

\* no thread is inside _load_script
AllIdle == \A t \in Threads2 : loader[t].pc = "idle"

\* ---------------------------------------------------------------------
\* compressor_manager.py : match_script and run
\* ---------------------------------------------------------------------
\* fnmatch.fnmatch(name, pat) on a case-sensitive platform: "*" stands for
\* any run of characters, "?" for one character, any other character for
\* itself
RECURSIVE fnmatch(_, _)
fnmatch(name, pat) ==
    IF pat = <<>> THEN name = <<>>
    ELSE IF Head(pat) = "*"
         THEN \/ fnmatch(name, Tail(pat))
              \/ name # <<>> /\ fnmatch(Tail(name), pat)
         ELSE /\ name # <<>>
              /\ Head(pat) = "?" \/ Head(pat) = Head(name)
              /\ fnmatch(Tail(name), Tail(pat))

\* the .py files the directory can hold, as sorted() orders their names
FileOrder == <<"__init__", "default", "google_search", "mine">>

\* sorted(os.listdir(_COMPRESSOR_DIR)), the names of the .py files in it
Listing(fs) ==
    SelectSeqRec(FileOrder, [i \in 1..Len(FileOrder) |-> fs[FileOrder[i]] # NoFile])

\* fname.startswith("_")
StartsWithUnderscore(fname) == fname \in {"__init__"}

\* _load_script(name) raises: the file is there, is not answered from
\* _cache and does not compile
LoadRaises(fs, c, name) ==
    /\ fs[FileOf(name)] # NoFile
    /\ ~CacheHit(c[name], fs[FileOf(name)].mtime)
    /\ ~fs[FileOf(name)].code.compiles

\* the value _load_script(name) returns (NoModule: None)
Loaded(fs, c, name) ==
    IF fs[FileOf(name)] = NoFile THEN NoModule
    ELSE IF CacheHit(c[name], fs[FileOf(name)].mtime) THEN c[name].mod
         ELSE ModuleOf(fs[FileOf(name)].code)

\* _cache after _load_script has been called for each of the names
CacheWith(fs, c, names) ==
    [n \in DOMAIN c |->
        IF n \notin names \/ LoadRaises(fs, c, n) THEN c[n]
        ELSE IF fs[FileOf(n)] = NoFile THEN NoCacheEntry
             ELSE CacheEntry(fs[FileOf(n)].mtime, Loaded(fs, c, n))]

\* _get_script_patterns(name): URL_PATTERNS of the loaded module, [] when
\* the load raises or returns None
_get_script_patterns(fs, c, name) ==
    IF LoadRaises(fs, c, name) THEN <<>> ELSE Loaded(fs, c, name).patterns

\* a script is enabled unless config "disabled_compressors" lists it
NeverDisabled(ds, name) == FALSE

\* _is_disabled(name)
_is_disabled(ds, name) == name \in ds

\* the files the second tier of match_script passes over
Skipped(ds, fname) ==
    StartsWithUnderscore(fname) \/ fname = "default" \/ _is_disabled(ds, fname)

\* some non-empty pattern of the list matches the URL
AnyPattern(pats, u) ==
    \E i \in 1..Len(pats) : pats[i] # <<>> /\ fnmatch(u, pats[i])

\* tier 1 of match_script: the script of the first rule that has a pattern
\* and a script and whose pattern matches ("": no rule does)
RECURSIVE FirstRule(_, _)
FirstRule(rs, u) ==
    IF rs = <<>> THEN ""
    ELSE IF /\ Head(rs).pattern # <<>>
            /\ Head(rs).script # ""
            /\ fnmatch(u, Head(rs).pattern)
         THEN Head(rs).script
         ELSE FirstRule(Tail(rs), u)

\* tier 2 of match_script: the first file of the listing that is not passed
\* over and declares a matching pattern ("": none does)
RECURSIVE FirstScript(_, _, _, _, _)
FirstScript(fnames, u, fs, c, ds) ==
    IF fnames = <<>> THEN ""
    ELSE IF /\ ~Skipped(ds, Head(fnames))
            /\ AnyPattern(_get_script_patterns(fs, c, Head(fnames)), u)
         THEN Head(fnames)
         ELSE FirstScript(Tail(fnames), u, fs, c, ds)

\* match_script(url, rules)
match_script(u, rs, fs, c, ds) ==
    IF FirstRule(rs, u) # "" THEN FirstRule(rs, u)
    ELSE IF FirstScript(Listing(fs), u, fs, c, ds) # ""
         THEN FirstScript(Listing(fs), u, fs, c, ds)
         ELSE "default"

\* the scripts match_script loads on its way
Examined(u, rs, fs, c, ds) ==
    IF FirstRule(rs, u) # "" THEN {}
    ELSE LET names == Listing(fs)
             hit == FirstScript(names, u, fs, c, ds)
         IN  {names[i] : i \in {j \in 1..Len(names) :
                 /\ ~Skipped(ds, names[j])
                 /\ hit # "" => \E k \in j..Len(names) : names[k] = hit}}

\* what the except branch of run hands to assemble_result
ExceptFilteredNothing(nodes) == <<>>

\* except Exception: filtered = default_mod.process(dom_nodes)
ExceptFiltered(nodes) == process(nodes)

\* mod.process(dom_nodes, settings=settings) or mod.process(dom_nodes) of a
\* module whose process returns
ProcessOf(name, mod, nodes, settings) ==
    IF mod.proc = "builtin" /\ name # "default"
    THEN ScriptProcess(name, nodes, settings)
    ELSE process(nodes)

\* compressor_manager.run(url, dom_nodes, html_len)
run ==
    /\ pc = "walked"
    /\ matched = ""
    /\ LET name == match_script(url, rules, files, cache, disabled)
           c1 == CacheWith(files, cache, Examined(url, rules, files, cache, disabled))
           mod == Loaded(files, c1, name)
           usable == mod # NoModule /\ mod.proc # "none"
           script_name == IF usable THEN name ELSE "default"
           used == IF usable THEN mod ELSE Loaded(files, c1, "default")
           settings == _resolve_settings(script_name, overrides)
           out == IF used.proc = "raises" THEN ExceptFiltered(dom_nodes)
                  ELSE ProcessOf(script_name, used, dom_nodes, settings)
       IN  /\ matched' = name
           /\ IF LoadRaises(files, c1, name)
              THEN /\ pc' = "raised"
                   /\ cache' = c1
                   /\ UNCHANGED <<script, filtered, result>>
              ELSE /\ pc' = "snapshot"
                   /\ cache' = CacheWith(files, c1, {name, script_name, "default"}
                                   \ (IF usable /\ used.proc # "raises"
                                      THEN {"default"} \ {name} ELSE {}))
                   /\ script' = script_name
                   /\ filtered' = out
                   /\ result' = assemble_result(dom_nodes, out)
    /\ UNCHANGED <<overrides, dom_nodes, simplified, again, roundtrip,
                   before_nodes, diff, diff_all, diff_max_items>>
    /\ UNCHANGED <<files, loader, crud, rules, disabled, url>>
    /\ UNCHANGED <<walkVars, sessVars, unitVars>>

\* the URL, the configuration and the directory are given
StartManager(u, rs, ds, fs) ==
    /\ files = fs
    /\ cache = EmptyCache
    /\ loader = [t \in Threads2 |-> Idle]
    /\ crud = NoCrud
    /\ rules = rs
    /\ disabled = ds
    /\ url = u
    /\ matched = ""

\* ---------------------------------------------------------------------
\* compressors/default.py : _truncate_long_lists on a tree of its own
\* ---------------------------------------------------------------------
\* the node _flat_to_tree builds for an element, with its children
Branch(kind, element, depth, children) ==
    [TreeNode(RawNode(kind, element, depth)) EXCEPT !.children = children]

\* a list with n items; every `every`-th item holds a link, every
\* `other`-th item is a paragraph instead of a list item (0: none)
ListTree(n, every, other) ==
    <<Branch(List, 1, 0,
        [i \in 1..n |->
            Branch(IF other > 0 /\ i % other = 0 THEN ParaA ELSE ItemB, 1 + i, 1,
                     IF every > 0 /\ i % every = 0
                     THEN <<Branch(LinkB, 1 + n + i, 2, <<>>)>>
                     ELSE <<>>)])>>

\* the max_items and show_head the selected script passes: the default
\* script none (the defaults of the signature apply), a site script those of
\* its resolved settings
MaxItemsOf(name, user) ==
    IF name = "default" THEN DefaultMaxItems
    ELSE CfgGet(_resolve_settings(name, user), "max_items", FallbackMaxItems(name))

ShowHeadOf(name, user) ==
    IF name = "default" THEN DefaultShowHead
    ELSE CfgGet(_resolve_settings(name, user), "show_head", FallbackShowHead(name))

\* tree = _truncate_long_lists(tree, ...) as process calls it
Truncate ==
    /\ list_tree # <<>>
    /\ truncated = <<>>
    /\ truncated' = _truncate_long_lists(list_tree, MaxItemsOf(script, overrides),
                                         ShowHeadOf(script, overrides))
    /\ UNCHANGED <<html, config, list_tree, stage_in, stage_out>>
    /\ UNCHANGED <<pipeVars, walkVars, sessVars, mgrVars>>

\* ---------------------------------------------------------------------
\* dom_parser.py : parse_dom
\* ---------------------------------------------------------------------
\* a NavigableString of the parsed document
TextNode(chars) ==
    [tag |-> "#text", bid |-> 0, attrs |-> <<>>, icon |-> <<>>, text |-> chars,
     raw |-> NoState, children |-> <<>>]

\* a Tag of the parsed document: bid is its data-bid, attrs what _fmt_attrs
\* renders of its attributes, icon its data-bicon, raw the attributes that
\* _is_hidden and the group annotation read (none here)
Element(tag, bid, attrs, icon, children) ==
    [tag |-> tag, bid |-> bid, attrs |-> attrs, icon |-> icon, text |-> <<>>,
     raw |-> NoState, children |-> children]

\* the same element carrying the attributes `raw`; the value of style is
\* its list of <<property, value>> declarations
WithAttrs(el, raw) == [el EXCEPT !.raw = raw]

\* tag.get(name, "")
AttrOf(tag, name) == IF name \in DOMAIN tag.raw THEN tag.raw[name] ELSE ""

\* _RE_DISPLAY_NONE or _RE_VISIBILITY_HIDDEN finds a match in the style
StyleHides(style) ==
    \E i \in 1..Len(style) :
        style[i] \in {<<"display", "none">>, <<"visibility", "hidden">>}

\* _is_hidden that ignores the annotation of an active group member
IsHiddenThoughActive(tag) ==
    \/ AttrOf(tag, "data-bhidden") = "1"
    \/ "hidden" \in DOMAIN tag.raw

_is_hidden(tag) ==
    IF AttrOf(tag, "data-bgroup") = "active" THEN FALSE
    ELSE IF AttrOf(tag, "data-bhidden") = "1" THEN TRUE
    ELSE IF "hidden" \in DOMAIN tag.raw THEN TRUE
    ELSE IF AttrOf(tag, "aria-hidden") = "true" THEN TRUE
    ELSE IF tag.tag = "input" /\ AttrOf(tag, "type") = "hidden" THEN TRUE
    ELSE IF tag.tag = "dialog" /\ "open" \notin DOMAIN tag.raw THEN TRUE
    ELSE "style" \in DOMAIN tag.raw /\ StyleHides(tag.raw["style"])

SKIP_TAGS == {"script", "style", "meta", "link", "noscript", "svg", "head",
              "br", "hr", "iframe", "object", "embed", "template", "slot", "col"}

INLINE_TAGS == {"a", "span", "strong", "em", "b", "i", "u", "s", "code", "kbd",
                "mark", "small", "sub", "sup", "abbr", "cite", "time", "label"}

\* isinstance(child, Tag)
IsTag(c) == c.tag # "#text"

\* the stripped, non-empty strings below an element, in document order
RECURSIVE Strings(_)
Strings(el) ==
    Flatten([i \in 1..Len(el.children) |->
        LET c == el.children[i]
        IN  IF IsTag(c) THEN Strings(c)
            ELSE IF Strip(c.text) = <<>> THEN <<>> ELSE <<Strip(c.text)>>])

\* el.get_text(separator=" ", strip=True)
get_text(el) == JoinSpace(Strings(el))

\* _detect_actions for an element that carries neither role nor type
_detect_actions(tag_name) ==
    IF tag_name \in {"a", "button"} THEN <<"click">> ELSE <<>>

\* the non-empty members of a list of strings
NonEmpty(parts) ==
    SelectSeqRec(parts, [i \in 1..Len(parts) |-> parts[i] # <<>>])

\* _collect_text(el): the element's own strings and the text of its inline
\* children, that of a clickable one wrapped in angle marks
_collect_text(el) ==
    JoinSpace(NonEmpty(
        [i \in 1..Len(el.children) |->
            LET child == el.children[i]
            IN  IF ~IsTag(child) THEN Strip(child.text)
                ELSE IF child.tag \notin INLINE_TAGS THEN <<>>
                ELSE IF get_text(child) = <<>> THEN <<>>
                ELSE IF _detect_actions(child.tag) # <<>>
                     THEN <<LAngle>> \o get_text(child) \o <<RAngle>>
                     ELSE get_text(child)]))

\* f"[icon: {icon}]"
IconLabel(icon) == <<"[", "i", "c", "o", "n", ":", " ">> \o icon \o <<"]">>

\* block_children of _walk: the element children that are not skipped
BlockChildren(el) ==
    SelectSeqRec(el.children,
                 [i \in 1..Len(el.children) |->
                     IsTag(el.children[i]) /\ el.children[i].tag \notin SKIP_TAGS])

\* the state _walk gives an element that carries no state attribute
GroupState(child) ==
    IF AttrOf(child, "data-bgroup") = "active" THEN [selected |-> "true"]
    ELSE IF AttrOf(child, "data-bgroup") = "inactive" THEN [hidden |-> "true"]
    ELSE NoState

\* the node _walk appends for a child element, counter[0] being idx
WalkNode(child, depth, idx) ==
    LET text == _collect_text(child)
        actions == _detect_actions(child.tag)
        shown == IF text # <<>> THEN text
                 ELSE IF child.icon # <<>> THEN IconLabel(child.icon) ELSE <<>>
        is_inlined == /\ child.tag \in INLINE_TAGS
                      /\ actions # <<>>
                      /\ BlockChildren(child) = <<>>
    IN  [idx |-> idx, depth |-> depth, tag |-> child.tag, attrs |-> child.attrs,
         text |-> IF is_inlined THEN <<>> ELSE shown,
         selector |-> BidSelector(child.bid), xpath |-> XPath(child.bid),
         actions |-> actions, label |-> shown, state |-> GroupState(child),
         inlined |-> is_inlined]

\* " | ".join(parts)
RECURSIVE JoinBar(_)
JoinBar(parts) ==
    IF parts = <<>> THEN <<>>
    ELSE IF Len(parts) = 1 THEN parts[1]
    ELSE parts[1] \o <<" ", "|", " ">> \o JoinBar(Tail(parts))

\* cell_elements of a <tr>: its td and th children
CellElements(row) ==
    SelectSeqRec(row.children,
                 [i \in 1..Len(row.children) |-> row.children[i].tag \in {"td", "th"}])

\* the node _walk appends for a <tr>: the texts of its cells in one line
RowNode(row, depth, idx) ==
    LET cells == CellElements(row)
        row_text == JoinBar([i \in 1..Len(cells) |->
                        IF _collect_text(cells[i]) # <<>> THEN _collect_text(cells[i])
                        ELSE get_text(cells[i])])
    IN  [idx |-> idx, depth |-> depth, tag |-> "tr", attrs |-> row.attrs,
         text |-> row_text,
         selector |-> BidSelector(row.bid), xpath |-> XPath(row.bid),
         actions |-> <<>>, label |-> row_text, state |-> NoState,
         inlined |-> FALSE]

\* a descendant of the cell is a tag outside SKIP_TAGS with actions
RECURSIVE HasActionBelow(_)
HasActionBelow(el) ==
    \E i \in 1..Len(el.children) :
        LET d == el.children[i]
        IN  /\ IsTag(d)
            /\ \/ (d.tag \notin SKIP_TAGS /\ _detect_actions(d.tag) # <<>>)
               \/ HasActionBelow(d)

RECURSIVE _walk(_, _, _, _)
RECURSIVE WalkChildren(_, _, _, _, _)
RECURSIVE WalkCells(_, _, _, _, _)

\* the loop over the cells of a row, from cell i on: nodes with what it
\* appends
WalkCells(cells, i, depth, nodes, cfg) ==
    IF i > Len(cells) THEN nodes
    ELSE WalkCells(cells, i + 1, depth,
                   IF HasActionBelow(cells[i])
                   THEN _walk(cells[i], depth + 1, nodes, cfg) ELSE nodes,
                   cfg)

\* the loop of _walk over el.children, from child i on: nodes (counter[0]
\* is its length) with what the loop appends
WalkChildren(el, i, depth, nodes, cfg) ==
    IF i > Len(el.children) THEN nodes
    ELSE IF Len(nodes) >= cfg.max_nodes THEN nodes
    ELSE LET child == el.children[i]
         IN  IF ~IsTag(child) \/ child.tag \in SKIP_TAGS \/ _is_hidden(child)
             THEN WalkChildren(el, i + 1, depth, nodes, cfg)
             ELSE IF child.tag = "tr"
             THEN WalkChildren(el, i + 1, depth,
                      WalkCells(CellElements(child), 1, depth,
                                Append(nodes, RowNode(child, depth, Len(nodes) + 1)),
                                cfg),
                      cfg)
             ELSE LET emitted == Append(nodes, WalkNode(child, depth, Len(nodes) + 1))
                  IN  WalkChildren(el, i + 1, depth,
                          IF BlockChildren(child) # <<>>
                          THEN _walk(child, depth + 1, emitted, cfg) ELSE emitted,
                          cfg)

\* _walk without the test of max_nodes and max_depth on entry
WalkUnguarded(el, depth, nodes, cfg) == WalkChildren(el, 1, depth, nodes, cfg)

\* _walk(el, depth): nodes with what the call appends
_walk(el, depth, nodes, cfg) ==
    IF Len(nodes) >= cfg.max_nodes \/ depth > cfg.max_depth THEN nodes
    ELSE WalkChildren(el, 1, depth, nodes, cfg)

\* parse_dom(html), html given as its parsed body, under the configuration
parse_dom(body, cfg) == _walk(body, 0, <<>>, cfg)

\* extract_unified_dom, first half: dom_nodes = parse_dom(html)
Parse ==
    /\ html # NoHtml
    /\ pc = "walked"
    /\ dom_nodes = <<>>
    /\ dom_nodes' = parse_dom(html, config)
    /\ UNCHANGED <<pc, script, overrides, simplified, filtered, result, again,
                   roundtrip, before_nodes, diff, diff_all, diff_max_items>>
    /\ UNCHANGED <<walkVars, sessVars, mgrVars, unitVars>>

\* no result is being built by _refresh_dom
NoFresh == Cached(0, NoPage, NoResult)

\* BrowserManager.__init__
NoSession ==
    /\ lock = NoThread
    /\ tpc = [t \in Threads |-> "idle"]
    /\ call = [t \in Threads |-> NoCall]
    /\ outcome = [t \in Threads |-> "none"]
    /\ drove = [t \in Threads |-> FALSE]
    /\ entry = [t \in Threads |-> NoEntry]
    /\ fresh = [t \in Threads |-> NoFresh]
    /\ browser = FALSE
    /\ tabs = <<>>
    /\ page_doc = <<>>
    /\ page = NoPage
    /\ node_map = Empty
    /\ xpath_map = Empty
    /\ last_filtered = Empty
    /\ last_result = Empty
    /\ new_pages = <<>>
    /\ downloads = <<>>
    /\ events = {}
    /\ pages_made = 0
    /\ calls = 0
    /\ unlocked = {}

\* the result _refresh_dom builds for each document
BlankResult == RunFor(BlankDoc)
SiteAResult == RunFor("siteA")
SiteBResult == RunFor("siteB")

ResultOf(doc) ==
    CASE doc = "siteA" -> SiteAResult
      [] doc = "siteB" -> SiteBResult
      [] OTHER -> BlankResult

\* pages[-1]
LastOf(s) == s[Len(s)]

\* the list s after s.remove(x), or after x left context.pages
Without(s, x) == SelectSeqRec(s, [i \in 1..Len(s) |-> s[i] # x])

\* remaining[-1] if remaining else None
LastOrNone(remaining) == IF remaining # <<>> THEN LastOf(remaining) ELSE NoPage

\* the hids callers pass: a node, the list placeholder of siteB, an unknown id
HidChoices == {<<1>>, <<1, 2>>, <<9>>}

\* tab_id arguments: every index the bound allows and one past them
TabIds == 0..MaxPages

\* operations that call _resolve(node_id)
NodeOps == {"click", "get_dom_detail"}

\* operations that end in _action_result
ActionOps == {"open", "back", "click", "legacy_click", "switch_tab", "new_tab"}

\* operations that navigate or change the active page by themselves
NavOps == {"open", "back", "switch_tab", "new_tab", "close_tab"}

\* the calls a client can make (legacy_click: app.py api_click with a selector)
Calls ==
    {[NoCall EXCEPT !.op = "open", !.url = u, !.refresh_dom = r] :
        u \in Docs, r \in BOOLEAN}
    \cup {[NoCall EXCEPT !.op = "new_tab", !.url = u, !.refresh_dom = r] :
        u \in Docs, r \in BOOLEAN}
    \cup {[NoCall EXCEPT !.op = o, !.refresh_dom = r] :
        o \in {"back", "legacy_click"}, r \in BOOLEAN}
    \cup {[NoCall EXCEPT !.op = "click", !.node_id = h, !.refresh_dom = r] :
        h \in HidChoices, r \in BOOLEAN}
    \cup {[NoCall EXCEPT !.op = "get_dom_detail", !.node_id = h] : h \in HidChoices}
    \cup {[NoCall EXCEPT !.op = "switch_tab", !.tab_id = i, !.refresh_dom = r] :
        i \in TabIds, r \in BOOLEAN}
    \cup {[NoCall EXCEPT !.op = o] : o \in {"get_dom", "close_tab", "close"}}

\* with self._lock: the lock can be taken only when nobody holds it
CanAcquireAlways == TRUE

CanAcquire == lock = NoThread

\* _ensure_open: the active page after the recovery of a closed one
_ensure_open ==
    IF page # NoPage /\ page \notin Range(tabs) THEN LastOrNone(tabs) ELSE page

\* _resolve: node_id is a key of _node_map and its selector is not empty
ResolvesAnyKey(node_id) == node_id \in DOMAIN node_map.value

_resolve(node_id) ==
    /\ node_id \in DOMAIN node_map.value
    /\ node_map.value[node_id] # <<>>

\* the four cached fields as close leaves them
CloseCachesKeepXPath == <<Empty, xpath_map, Empty, Empty>>

CloseCaches == <<Empty, Empty, Empty, Empty>>

\* the four cached fields when the walk or the compressor run raises
CachesOnRaiseCleared == <<Empty, Empty, Empty, Empty>>

CachesOnRaise == <<node_map, xpath_map, last_filtered, last_result>>

\* the four cached fields take the values c
SetCaches(c) ==
    /\ node_map' = c[1]
    /\ xpath_map' = c[2]
    /\ last_filtered' = c[3]
    /\ last_result' = c[4]

\* what a call finds when it takes the lock
Entry ==
    [node_map |-> node_map, xpath_map |-> xpath_map, last_filtered |-> last_filtered,
     last_result |-> last_result, page |-> page, browser |-> browser]

\* the call of thread t ends with outcome o (a return or an exception)
Ends(t, o) ==
    /\ tpc' = [tpc EXCEPT ![t] = "done"]
    /\ outcome' = [outcome EXCEPT ![t] = o]

\* the call of thread t goes on to step s
Goes(t, s) ==
    /\ tpc' = [tpc EXCEPT ![t] = s]
    /\ UNCHANGED outcome

\* the fields a callback writes, recorded when its thread does not hold the lock
Written(t, fields) == IF lock = t THEN unlocked ELSE unlocked \cup fields

\* pending events of page p
EventsOf(p) == {e \in events : e[2] = p}

\* a client thread calls an operation: with self._lock
Enter(t, c) ==
    /\ tpc[t] = "idle"
    /\ CanAcquire
    /\ calls < MaxCalls
    /\ (c.op = "new_tab" \/ (c.op = "open" /\ ~browser)) => pages_made < MaxPages
    /\ lock' = t
    /\ calls' = calls + 1
    /\ call' = [call EXCEPT ![t] = [c EXCEPT !.n = calls + 1]]
    /\ entry' = [entry EXCEPT ![t] = Entry]
    /\ Goes(t, "entered")
    /\ UNCHANGED <<drove, fresh, browserVars, cacheVars, unlocked, pipeVars, walkVars, mgrVars, unitVars>>

\* close(): an error dict without a browser, else everything is reset
Close(t) ==
    /\ tpc[t] = "entered"
    /\ call[t].op = "close"
    /\ IF ~browser
       THEN /\ Ends(t, "error")
            /\ UNCHANGED <<browserVars, cacheVars>>
       ELSE /\ Ends(t, "ok")
            /\ browser' = FALSE
            /\ tabs' = <<>>
            /\ page' = NoPage
            /\ new_pages' = <<>>
            /\ downloads' = <<>>
            /\ events' = {}
            /\ SetCaches(CloseCaches)
            /\ UNCHANGED <<page_doc, pages_made>>
    /\ UNCHANGED <<lock, call, drove, entry, fresh, historyVars, pipeVars, walkVars, mgrVars, unitVars>>

\* open(): the launch of a browser when none is running (no _ensure_open)
Launch(t) ==
    /\ tpc[t] = "entered"
    /\ call[t].op = "open"
    /\ IF ~browser
       THEN /\ browser' = TRUE
            /\ pages_made' = pages_made + 1
            /\ page_doc' = Append(page_doc, BlankDoc)
            /\ tabs' = <<pages_made + 1>>
            /\ page' = pages_made + 1
            /\ new_pages' = <<>>
            /\ UNCHANGED <<downloads, events>>
       ELSE UNCHANGED browserVars
    /\ Goes(t, "ready")
    /\ UNCHANGED <<lock, call, drove, entry, fresh, cacheVars, historyVars, pipeVars, walkVars, mgrVars, unitVars>>

\* the guards of every other operation: _ensure_open, _resolve, tab_id range
Guard(t) ==
    /\ tpc[t] = "entered"
    /\ call[t].op \notin {"open", "close"}
    /\ IF _ensure_open = NoPage
       THEN Ends(t, "NotOpen") /\ page' = NoPage
       ELSE IF call[t].op \in NodeOps /\ ~_resolve(call[t].node_id)
       THEN Ends(t, "NodeNotFound") /\ page' = _ensure_open
       ELSE IF call[t].op = "switch_tab"
       THEN IF call[t].tab_id >= Len(tabs)
            THEN Ends(t, "InvalidTab") /\ page' = _ensure_open
            ELSE Goes(t, "ready") /\ page' = tabs[call[t].tab_id + 1]
       ELSE IF call[t].op = "get_dom"
       THEN Goes(t, "acted") /\ page' = _ensure_open
       ELSE Goes(t, "ready") /\ page' = _ensure_open
    /\ UNCHANGED <<lock, call, drove, entry, fresh, browser, tabs, page_doc, new_pages,
                   downloads, events, pages_made, cacheVars, historyVars,
                   pipeVars, walkVars, mgrVars, unitVars>>

\* the page shows document d after a navigation
Shows(p, d) == page_doc' = [page_doc EXCEPT ![p] = d]

\* a new page opens showing document d
Opens(d) ==
    /\ pages_made' = pages_made + 1
    /\ page_doc' = Append(page_doc, d)
    /\ tabs' = Append(tabs, pages_made + 1)

\* the page call of each operation
PageAction(t) ==
    /\ tpc[t] = "ready"
    /\ LET op == call[t].op
       IN  CASE op # "new_tab" /\ page = NoPage ->
                  \* self._page is None: the page call raises before it starts
                  /\ Ends(t, "AttributeError")
                  /\ UNCHANGED <<drove, browserVars>>
             [] op = "open" ->
                  /\ drove' = [drove EXCEPT ![t] = TRUE]
                  /\ \/ Shows(page, call[t].url) /\ Goes(t, "acted")
                     \/ UNCHANGED page_doc /\ Ends(t, "Timeout")
                  /\ UNCHANGED <<browser, tabs, page, new_pages, downloads,
                                 events, pages_made>>
             [] op = "back" ->
                  /\ drove' = [drove EXCEPT ![t] = TRUE]
                  /\ \/ \E d \in Docs \cup {BlankDoc} : Shows(page, d) /\ Goes(t, "acted")
                     \/ UNCHANGED page_doc /\ Ends(t, "Timeout")
                  /\ UNCHANGED <<browser, tabs, page, new_pages, downloads,
                                 events, pages_made>>
             [] op \in {"click", "legacy_click"} ->
                  /\ drove' = [drove EXCEPT ![t] = TRUE]
                  /\ \/ /\ Goes(t, "acted")
                        /\ UNCHANGED <<tabs, page_doc, events, pages_made>>
                     \/ /\ pages_made < MaxPages
                        /\ \E d \in Docs : Opens(d)
                        /\ events' = events \cup {<<"page", pages_made + 1>>}
                        /\ Goes(t, "acted")
                     \/ /\ Len(downloads) + Cardinality({e \in events : e[1] = "download"})
                              < MaxDownloads
                        /\ events' = events \cup {<<"download", page>>}
                        /\ Goes(t, "acted")
                        /\ UNCHANGED <<tabs, page_doc, pages_made>>
                     \/ /\ Ends(t, "Timeout")
                        /\ UNCHANGED <<tabs, page_doc, events, pages_made>>
                  /\ UNCHANGED <<browser, page, new_pages, downloads>>
             [] op = "get_dom_detail" ->
                  /\ drove' = [drove EXCEPT ![t] = TRUE]
                  /\ \/ Ends(t, "ok")
                     \/ Ends(t, "Timeout")
                  /\ UNCHANGED browserVars
             [] op = "switch_tab" ->
                  /\ drove' = [drove EXCEPT ![t] = TRUE]
                  /\ Goes(t, "acted")
                  /\ UNCHANGED browserVars
             [] op = "new_tab" ->
                  /\ drove' = [drove EXCEPT ![t] = TRUE]
                  /\ page' = pages_made + 1
                  /\ \/ Opens(call[t].url) /\ Goes(t, "acted")
                     \/ Opens(BlankDoc) /\ Ends(t, "Timeout")
                  /\ UNCHANGED <<browser, new_pages, downloads, events>>
             [] op = "close_tab" ->
                  /\ drove' = [drove EXCEPT ![t] = TRUE]
                  /\ tabs' = Without(tabs, page)
                  /\ new_pages' = Without(new_pages, page)
                  /\ page' = LastOrNone(Without(tabs, page))
                  /\ events' = events \ EventsOf(page)
                  /\ Ends(t, "ok")
                  /\ UNCHANGED <<browser, page_doc, downloads, pages_made>>
    /\ UNCHANGED <<lock, call, entry, fresh, cacheVars, historyVars, pipeVars, walkVars, mgrVars, unitVars>>

\* _action_result up to the walk and the compressor run of _refresh_dom;
\* get_dom calls _refresh_dom directly
ActionResult(t) ==
    /\ tpc[t] = "acted"
    /\ LET switched == call[t].op \in ActionOps /\ new_pages # <<>>
           active == IF switched THEN LastOf(new_pages) ELSE page
       IN  /\ page' = active
           /\ new_pages' = IF switched THEN <<>> ELSE new_pages
           /\ IF ~call[t].refresh_dom
              THEN /\ Goes(t, "finishing")
                   /\ UNCHANGED <<fresh, cacheVars>>
              ELSE IF active = NoPage
              THEN /\ Ends(t, "AttributeError")
                   /\ SetCaches(CachesOnRaise)
                   /\ UNCHANGED fresh
              ELSE \/ /\ fresh' = [fresh EXCEPT ![t] =
                                   Cached(call[t].n, active, ResultOf(page_doc[active]))]
                      /\ Goes(t, "walked")
                      /\ UNCHANGED cacheVars
                   \/ /\ Ends(t, "WalkError")
                      /\ SetCaches(CachesOnRaise)
                      /\ UNCHANGED fresh
    /\ UNCHANGED <<lock, call, drove, entry, browser, tabs, page_doc, downloads, events,
                   pages_made, historyVars, pipeVars, walkVars, mgrVars, unitVars>>

\* _refresh_dom: self._node_map = ..., self._xpath_map = ...
AssignMaps(t) ==
    /\ tpc[t] = "walked"
    /\ node_map' = [fresh[t] EXCEPT !.value = fresh[t].value.node_map]
    /\ xpath_map' = [fresh[t] EXCEPT !.value = fresh[t].value.xpath_map]
    /\ Goes(t, "half")
    /\ UNCHANGED <<lock, call, drove, entry, fresh, last_filtered, last_result,
                   browserVars, historyVars, pipeVars, walkVars, mgrVars, unitVars>>

\* _refresh_dom: self._last_filtered = ..., self._last_result = ...
AssignLast(t) ==
    /\ tpc[t] = "half"
    /\ last_filtered' = [fresh[t] EXCEPT !.value = fresh[t].value.interactive]
    /\ last_result' = fresh[t]
    /\ fresh' = [fresh EXCEPT ![t] = NoFresh]
    /\ Goes(t, "finishing")
    /\ UNCHANGED <<lock, call, drove, entry, node_map, xpath_map,
                   browserVars, historyVars, pipeVars, walkVars, mgrVars, unitVars>>

\* the rest of _action_result: _get_tabs_info reads url and title of every page
Finish(t) ==
    /\ tpc[t] = "finishing"
    /\ \/ Ends(t, "ok")
       \/ call[t].op # "get_dom" /\ Ends(t, "TabsError")
    /\ UNCHANGED <<lock, call, drove, entry, fresh, browserVars, cacheVars,
                   historyVars, pipeVars, walkVars, mgrVars, unitVars>>

\* the end of the with block: the lock is released
Leave(t) ==
    /\ tpc[t] = "done"
    /\ lock' = NoThread
    /\ tpc' = [tpc EXCEPT ![t] = "idle"]
    /\ call' = [call EXCEPT ![t] = NoCall]
    /\ outcome' = [outcome EXCEPT ![t] = "none"]
    /\ drove' = [drove EXCEPT ![t] = FALSE]
    /\ entry' = [entry EXCEPT ![t] = NoEntry]
    /\ UNCHANGED <<fresh, browserVars, cacheVars, historyVars, pipeVars, walkVars, mgrVars, unitVars>>

\* benchmark(url): no lock; _launch_benchmark_browser borrows self._playwright
BenchStart(t) ==
    /\ tpc[t] = "idle"
    /\ calls < MaxCalls
    /\ calls' = calls + 1
    /\ call' = [call EXCEPT ![t] =
                   [NoCall EXCEPT !.op = "benchmark", !.n = calls + 1, !.own_pw = ~browser]]
    /\ Goes(t, "bench")
    /\ UNCHANGED <<lock, drove, entry, fresh, browserVars, cacheVars, unlocked,
                   pipeVars, walkVars, mgrVars, unitVars>>

\* benchmark returns
BenchEnd(t) ==
    /\ tpc[t] = "bench"
    /\ call' = [call EXCEPT ![t] = NoCall]
    /\ Goes(t, "idle")
    /\ UNCHANGED <<lock, drove, entry, fresh, browserVars, cacheVars, historyVars,
                   pipeVars, walkVars, mgrVars, unitVars>>

\* the user closes a tab in the browser window
UserClosesTab(p) ==
    /\ browser
    /\ p \in Range(tabs)
    /\ <<"close", p>> \notin events
    /\ events' = events \cup {<<"close", p>>}
    /\ UNCHANGED <<threadVars, browser, tabs, page_doc, page, new_pages, downloads,
                   pages_made, cacheVars, historyVars, pipeVars, walkVars, mgrVars, unitVars>>

\* a thread inside a Playwright call runs the callback of a pending event:
\* _on_page_close, _on_new_page, _on_download (none takes the lock)
Dispatch(t, e) ==
    /\ e \in events
    /\ \/ tpc[t] = "acted"
       \/ tpc[t] = "bench" /\ ~call[t].own_pw
    /\ events' = events \ {e}
    /\ CASE e[1] = "close" ->
              /\ tabs' = Without(tabs, e[2])
              /\ new_pages' = Without(new_pages, e[2])
              /\ page' = IF page = e[2] THEN LastOrNone(Without(tabs, e[2])) ELSE page
              /\ unlocked' = Written(t, (IF e[2] \in Range(new_pages)
                                         THEN {"_new_pages"} ELSE {})
                                        \cup (IF page = e[2] THEN {"_page"} ELSE {}))
              /\ UNCHANGED downloads
         [] e[1] = "page" ->
              /\ new_pages' = Append(new_pages, e[2])
              /\ unlocked' = Written(t, {"_new_pages"})
              /\ UNCHANGED <<tabs, page, downloads>>
         [] e[1] = "download" ->
              /\ \/ /\ downloads' = Append(downloads, e[2])
                    /\ unlocked' = Written(t, {"_downloads"})
                 \/ UNCHANGED <<downloads, unlocked>>
              /\ UNCHANGED <<tabs, page, new_pages>>
    /\ UNCHANGED <<threadVars, browser, page_doc, pages_made, cacheVars, calls,
                   pipeVars, walkVars, mgrVars, unitVars>>

\* no live document is modelled
NoDocument ==
    /\ elements = <<>>
    /\ data_bid = NoBids
    /\ earlier_bid = NoBids
    /\ instances = 0

\* Phase 2 of _inject_selectors: "let c = 0", then every element of the
\* body in document order gets data-bid = String(++c)
BidsByDocumentOrder(els) ==
    [e \in Range(els) |-> CHOOSE i \in 1..Len(els) : els[i] = e]

\* the selector _css_selector gives an element that carries a data-bid
_css_selector(bid) == BidSelector(bid)

\* the state before the first call, with the page's raw nodes and the
\* selected script given; `at` tells whether the page has been walked
StartPageAt(at, nodes, name, user, earlier, cap) ==
    /\ pc = at
    /\ script = name
    /\ overrides = user
    /\ dom_nodes = nodes
    /\ simplified = <<>>
    /\ filtered = <<>>
    /\ result = NoResult
    /\ again = <<>>
    /\ roundtrip = <<>>
    /\ before_nodes = earlier
    /\ diff = NoDiff
    /\ diff_all = NoDiffAll
    /\ diff_max_items = cap
    /\ NoDocument
    /\ NoSession

\* the same for a page that has been walked
StartPage(nodes, name, user, earlier, cap) ==
    StartPageAt("walked", nodes, name, user, earlier, cap)

\* the same with the scripts directory as shipped and nothing loaded
StartCapped(nodes, name, user, earlier, cap) ==
    /\ StartPage(nodes, name, user, earlier, cap)
    /\ NoManager
    /\ NoUnit

\* the same with diff_dom left at its default max_items
Start(nodes, name, user, earlier) ==
    StartCapped(nodes, name, user, earlier, DiffMaxItems)

\* compressor_manager.run: run the selected script, assemble the snapshot
Run ==
    /\ pc = "walked"
    /\ simplified' =
          SimplifiedTree(IF script = "default" THEN dom_nodes
                         ELSE PreFilter(script, dom_nodes,
                                        _resolve_settings(script, overrides)))
    /\ filtered' = RunProcess(script, dom_nodes, overrides)
    /\ result' = assemble_result(dom_nodes, filtered')
    /\ pc' = "snapshot"
    /\ UNCHANGED <<script, overrides, dom_nodes, again, roundtrip, before_nodes,
                   diff, diff_all, diff_max_items>>
    /\ UNCHANGED <<walkVars, sessVars, mgrVars, unitVars>>

\* the default compressor applied to its own output
Reprocess ==
    /\ pc = "snapshot"
    /\ again' = process(filtered)
    /\ pc' = "reprocessed"
    /\ UNCHANGED <<script, overrides, dom_nodes, simplified, filtered, result,
                   roundtrip, before_nodes, diff, diff_all, diff_max_items>>
    /\ UNCHANGED <<walkVars, sessVars, mgrVars, unitVars>>

\* flat -> tree -> flat with no stage in between
RoundTrip ==
    /\ pc = "walked"
    /\ roundtrip' = _tree_to_flat(_flat_to_tree(dom_nodes))
    /\ pc' = "roundtrip"
    /\ UNCHANGED <<script, overrides, dom_nodes, simplified, filtered, result,
                   again, before_nodes, diff, diff_all, diff_max_items>>
    /\ UNCHANGED <<walkVars, sessVars, mgrVars, unitVars>>

\* the state keys that occur in either list
StateKeys(before, after) ==
    UNION ({DOMAIN Get(before[i], "state", NoState) : i \in 1..Len(before)}
           \cup {DOMAIN Get(after[i], "state", NoState) : i \in 1..Len(after)})

\* diff_dom(before_nodes, filtered, max_items)
DiffDom ==
    /\ pc = "snapshot"
    /\ \E added_order \in Orders(Keys(filtered) \ Keys(before_nodes)),
          removed_order \in Orders(Keys(before_nodes) \ Keys(filtered)),
          common_order \in Orders(Keys(before_nodes) \cap Keys(filtered)),
          state_order \in Orders(StateKeys(before_nodes, filtered)) :
            /\ diff_all' = DiffLists(before_nodes, filtered, added_order,
                                     removed_order, common_order, state_order)
            /\ diff' = DiffReturn(diff_all', diff_max_items)
    /\ pc' = "diffed"
    /\ UNCHANGED <<script, overrides, dom_nodes, simplified, filtered, result,
                   again, roundtrip, before_nodes, diff_max_items>>
    /\ UNCHANGED <<walkVars, sessVars, mgrVars, unitVars>>

\* one walk of the live document on the parsing path of _refresh_dom
InjectSelectors ==
    /\ elements # <<>>
    /\ earlier_bid' = data_bid
    /\ data_bid' = BidsByDocumentOrder(elements)
    /\ UNCHANGED <<elements, instances>>
    /\ UNCHANGED <<pipeVars, sessVars, mgrVars, unitVars>>

\* the page inserts a new element at position k of the document
InsertElement ==
    /\ instances < MaxInstances
    /\ \E k \in 1..(Len(elements) + 1) :
          elements' = SubSeq(elements, 1, k - 1) \o <<instances + 1>>
                      \o SubSeq(elements, k, Len(elements))
    /\ instances' = instances + 1
    /\ UNCHANGED <<data_bid, earlier_bid>>
    /\ UNCHANGED <<pipeVars, sessVars, mgrVars, unitVars>>

\* the page removes the element at position k of the document
RemoveElement ==
    /\ \E k \in 1..Len(elements) :
          elements' = SubSeq(elements, 1, k - 1) \o SubSeq(elements, k + 1, Len(elements))
    /\ UNCHANGED <<data_bid, earlier_bid, instances>>
    /\ UNCHANGED <<pipeVars, sessVars, mgrVars, unitVars>>

\* ---------------------------------------------------------------------
\* Specifications
\* ---------------------------------------------------------------------
\* one page through the default compressor
PageKinds == {EmptyDiv, ClickableDiv, ParaA, SpanA, ItemB, LinkB, InlinedLink, Dialog}

Init ==
    \E len \in 1..MaxNodes :
        \E ks \in [1..len -> PageKinds], ds \in WalkDepths(len, MaxDepth) :
            Start(RawList(ks, ds), "default", NoState, <<>>)

Next == Run

Spec == Init /\ [][Next]_vars

\* the compressor run twice: pages on which a text is repeated below it
FixpointKinds == {ParaA, ItemB, SpanA, LinkB}
FixpointNodes == 4

InitFixpoint ==
    \E len \in 1..FixpointNodes :
        \E ks \in [1..len -> FixpointKinds], ds \in WalkDepths(len, MaxDepth) :
            Start(RawList(ks, ds), "default", NoState, <<>>)

NextFixpoint == Run \/ Reprocess

SpecFixpoint == InitFixpoint /\ [][NextFixpoint]_vars

\* flat -> tree -> flat on any flat list: any depths 0..MaxDepth
RoundTripKinds == {ParaA, Checkbox, EmptyDiv}

InitRoundTrip ==
    \E len \in 1..MaxNodes :
        \E ks \in [1..len -> RoundTripKinds], ds \in [1..len -> 0..MaxDepth] :
            Start(RawList(ks, ds), "default", NoState, <<>>)

NextRoundTrip == RoundTrip

SpecRoundTrip == InitRoundTrip /\ [][NextRoundTrip]_vars

\* every built-in script under user overrides of max_items and show_head
ScriptKinds == {List, ItemB, ParaA, Footer, EmptyDiv}

OverrideChoices ==
    {NoState}
    \cup {[max_items |-> m, show_head |-> h] : m \in 1..MaxOverride, h \in 0..MaxOverride}

InitScripts ==
    \E len \in 1..MaxNodes :
        \E ks \in [1..len -> ScriptKinds], ds \in WalkDepths(len, MaxDepth),
           name \in BuiltinScripts, user \in OverrideChoices :
            Start(RawList(ks, ds), name, user, <<>>)

NextScripts == Run

SpecScripts == InitScripts /\ [][NextScripts]_vars

\* two walks of a page whose elements changed in between; the earlier
\* snapshot is what the default compressor returned for the earlier walk
DiffChoices == {<<ParaA, 1>>, <<Checkbox, 1>>, <<ItemB, 2>>, <<ItemB, 0>>}

InitDiff ==
    \E len0 \in 1..MaxDiffNodes, len \in 1..MaxDiffNodes :
        \E cs0 \in [1..len0 -> DiffChoices], ds0 \in WalkDepths(len0, MaxDepth),
           cs \in [1..len -> DiffChoices], ds \in WalkDepths(len, MaxDepth) :
            Start(ElementList(cs, ds), "default", NoState, process(ElementList(cs0, ds0)))

NextDiff == Run \/ DiffDom

SpecDiff == InitDiff /\ [][NextDiff]_vars

\* two walks of a flat page on which an element changes its position, text,
\* state and actions; diff_dom is called with a max_items of 0..MaxCap
ChangeChoices == {<<ToggleOff, 1>>, <<ToggleOn, 1>>, <<Checkbox, 1>>,
                  <<ParaA, 1>>, <<ParaA, 2>>}

FlatDepths(len) == [i \in 1..len |-> 0]

InitChanged ==
    \E len0 \in 1..MaxDiffNodes, len \in 1..MaxDiffNodes, cap \in 0..MaxCap :
        \E cs0 \in [1..len0 -> ChangeChoices], cs \in [1..len -> ChangeChoices] :
            StartCapped(ElementList(cs, FlatDepths(len)), "default", NoState,
                        process(ElementList(cs0, FlatDepths(len0))), cap)

NextChanged == Run \/ DiffDom

SpecChanged == InitChanged /\ [][NextChanged]_vars

\* ---------------------------------------------------------------------
\* Properties of the snapshot (Spec)
\* ---------------------------------------------------------------------
TreeHids == {result.tree[i].hid : i \in 1..Len(result.tree)}

InteractiveWith(h) == {j \in 1..Len(result.interactive) : result.interactive[j].hid = h}

\* C1: every hid that has a line in the tree has exactly one line, is a key
\* of node_map and of xpath_map, mapped to the locators of its node, and, if
\* its node has actions, is carried by exactly one entry of interactive.
C1_TreeHidsAreMapped ==
    pc = "snapshot" =>
        \A i \in 1..Len(result.tree) :
            LET h == result.tree[i].hid
            IN  /\ Cardinality({k \in 1..Len(result.tree) : result.tree[k].hid = h}) = 1
                /\ h \in DOMAIN result.node_map
                /\ h \in DOMAIN result.xpath_map
                /\ \E j \in 1..Len(filtered) :
                      /\ filtered[j].hid = h
                      /\ result.node_map[h] = filtered[j].selector
                      /\ result.xpath_map[h] = filtered[j].xpath
                /\ (result.tree[i].actions # <<>>
                        => Cardinality(InteractiveWith(h)) = 1)

\* a snapshot whose tree has several lines, one of them with an action
C1_Witness ==
    /\ pc = "snapshot"
    /\ Len(result.tree) >= 2
    /\ \E i \in 1..Len(result.tree) : result.tree[i].actions # <<>>

\* C2: every key of node_map, every key of xpath_map and the hid of every
\* entry of interactive is the hid of some line of the tree.
C2_EveryEntryHasATreeLine ==
    pc = "snapshot" =>
        /\ DOMAIN result.node_map \subseteq TreeHids
        /\ DOMAIN result.xpath_map \subseteq TreeHids
        /\ \A j \in 1..Len(result.interactive) : result.interactive[j].hid \in TreeHids

\* C3: interactive has an entry for a filtered node iff the node's actions
\* are not empty.
C3_InteractiveIffActions ==
    pc = "snapshot" =>
        \A j \in 1..Len(filtered) :
            (InteractiveWith(filtered[j].hid) # {}) <=> (filtered[j].actions # <<>>)

\* a < b for dotted identifiers compared as tuples of integers
RECURSIVE HidLess(_, _)
HidLess(a, b) ==
    IF a = <<>> THEN b # <<>>
    ELSE IF b = <<>> THEN FALSE
    ELSE IF Head(a) # Head(b) THEN Head(a) < Head(b)
    ELSE HidLess(Tail(a), Tail(b))

Front(h) == SubSeq(h, 1, Len(h) - 1)

\* C4: the hids of the filtered list increase strictly in output order
\* (so they are pairwise distinct); the first root is 1; the hid of every
\* node is its parent's hid followed by its rank k >= 1 among its siblings,
\* the parent and the siblings of rank 1..k-1 being in the list; a node's
\* depth is the number of dots of its hid.
C4_HidsArePreOrder ==
    pc = "snapshot" =>
        LET hids == {filtered[i].hid : i \in 1..Len(filtered)}
        IN  /\ \A i \in 1..Len(filtered), j \in 1..Len(filtered) :
                  i < j => HidLess(filtered[i].hid, filtered[j].hid)
            /\ \A i \in 1..Len(filtered) :
                  LET h == filtered[i].hid
                      k == h[Len(h)]
                  IN  /\ Len(h) >= 1
                      /\ k >= 1
                      /\ (Len(h) > 1 => Front(h) \in hids)
                      /\ \A r \in 1..(k - 1) : Front(h) \o <<r>> \in hids
                      /\ filtered[i].depth = Len(h) - 1

\* a filtered list with a second root and a child
C4_Witness ==
    /\ pc = "snapshot"
    /\ \E i \in 1..Len(filtered) : filtered[i].hid = <<2>>
    /\ \E i \in 1..Len(filtered) : Len(filtered[i].hid) = 2

IsPopupRaw(n) == _is_popup(n)

\* C5: when no raw node is a popup (and no node has more than max_items
\* children), every raw node with actions is in the filtered list with the
\* same selector and the same actions.
C5_ActionableNodesKept ==
    (pc = "snapshot" /\ \A i \in 1..Len(dom_nodes) : ~IsPopupRaw(dom_nodes[i])) =>
        \A i \in 1..Len(dom_nodes) :
            dom_nodes[i].actions # <<>> =>
                \E j \in 1..Len(filtered) :
                    /\ filtered[j].selector = dom_nodes[i].selector
                    /\ filtered[j].actions = dom_nodes[i].actions

\* ---------------------------------------------------------------------
\* Properties of the scripts (SpecScripts, SpecFixpoint, SpecRoundTrip)
\* ---------------------------------------------------------------------
\* C6: for every built-in script and every resolved max_items / show_head,
\* nodes_after_filter <= nodes_before_filter.
C6_FilterNeverGrows ==
    pc = "snapshot" =>
        result.stats.nodes_after_filter <= result.stats.nodes_before_filter

\* C7: the default compressor applied to its own output keeps the node
\* count, and the tree that leaves the simplify loop is not shrunk by one
\* more simplify pass.
C7_ProcessIsIdempotentInCount ==
    /\ (pc = "reprocessed" => Len(again) = Len(filtered))
    /\ (pc = "snapshot" =>
            _count_nodes(_simplify(simplified)) = _count_nodes(simplified))

\* the index of the nearest node before i with a strictly smaller depth, or 0
NearestShallower(nodes, i) ==
    LET cands == {j \in 1..(i - 1) : nodes[j].depth < nodes[i].depth}
    IN  IF cands = {} THEN 0 ELSE CHOOSE j \in cands : \A m \in cands : m <= j

\* C8: flat -> tree -> flat returns the same nodes in the same order, each
\* with its tag, text, attrs, actions, state, selector and xpath, and each
\* attached under the nearest preceding node of strictly smaller depth (a
\* root when there is none).
C8_RoundTripKeepsNodes ==
    pc = "roundtrip" =>
        /\ Len(roundtrip) = Len(dom_nodes)
        /\ \A i \in 1..Len(dom_nodes) :
              LET r == roundtrip[i]
                  n == dom_nodes[i]
                  parent == NearestShallower(dom_nodes, i)
              IN  /\ r.tag = n.tag /\ r.text = n.text /\ r.attrs = n.attrs
                  /\ r.actions = n.actions /\ r.state = n.state
                  /\ r.selector = n.selector /\ r.xpath = n.xpath
                  /\ Front(r.hid) = (IF parent = 0 THEN <<>> ELSE roundtrip[parent].hid)

\* a round trip of a list in which a node sits more than one level below
\* the node before it and a later node returns to an earlier level
C8_Witness ==
    /\ pc = "roundtrip"
    /\ Len(dom_nodes) = 3
    /\ dom_nodes[2].depth > dom_nodes[1].depth + 1
    /\ dom_nodes[3].depth < dom_nodes[2].depth
    /\ dom_nodes[3].depth > dom_nodes[1].depth

\* ---------------------------------------------------------------------
\* Properties of diff_dom (SpecDiff)
\* ---------------------------------------------------------------------
\* C9: diff_dom(S, S) has has_changes = false and empty added, removed and
\* changed lists.
C9_SelfDiffIsEmpty ==
    (pc = "diffed" /\ before_nodes = filtered) =>
        /\ diff.has_changes = FALSE
        /\ diff.added = <<>>
        /\ diff.removed = <<>>
        /\ diff.changed = <<>>

\* a self-diff of a list in which two nodes share a selector and one has none
C9_Witness ==
    /\ pc = "diffed"
    /\ before_nodes = filtered
    /\ \E i, j \in 1..Len(filtered) :
          i # j /\ filtered[i].selector = filtered[j].selector /\ filtered[i].selector # <<>>

\* the non-empty selectors of a node list
Selectors(nodes) == {nodes[i].selector : i \in 1..Len(nodes)} \ {<<>>}

\* entries lists exactly one node of `nodes` for each selector of sels, by hid
OnePerSelector(entries, nodes, sels) ==
    /\ Len(entries) = Cardinality(sels)
    /\ \A s \in sels : \E i \in 1..Len(entries), j \in 1..Len(nodes) :
          nodes[j].selector = s /\ nodes[j].hid = entries[i].hid
    /\ \A i \in 1..Len(entries) : \E j \in 1..Len(nodes) :
          nodes[j].hid = entries[i].hid /\ nodes[j].selector \in sels

\* C10: before capping, added has exactly one entry per selector of after
\* that is not in before, removed one per selector of before that is not in
\* after; a selector of both is in neither, and no entry of added, removed
\* or changed is a node with an empty selector.
C10_AddedRemovedBySelector ==
    pc = "diffed" =>
        /\ OnePerSelector(diff_all.added_all, filtered,
                          Selectors(filtered) \ Selectors(before_nodes))
        /\ OnePerSelector(diff_all.removed_all, before_nodes,
                          Selectors(before_nodes) \ Selectors(filtered))
        /\ \A i \in 1..Len(diff_all.changed_all) : \E j \in 1..Len(filtered) :
              /\ filtered[j].hid = diff_all.changed_all[i].hid
              /\ filtered[j].selector \in Selectors(filtered) \cap Selectors(before_nodes)

\* a diff with an added and a removed selector while a node without a
\* selector is on one side only
C10_Witness ==
    /\ pc = "diffed"
    /\ diff_all.added_all # <<>>
    /\ diff_all.removed_all # <<>>
    /\ \E i \in 1..Len(filtered) : filtered[i].selector = <<>>
    /\ \A i \in 1..Len(before_nodes) : before_nodes[i].selector # <<>>

\* walks of one live document whose elements come and go between walks
InitWalks ==
    /\ pc = "walked"
    /\ script = "default"
    /\ overrides = NoState
    /\ dom_nodes = <<>>
    /\ simplified = <<>>
    /\ filtered = <<>>
    /\ result = NoResult
    /\ again = <<>>
    /\ roundtrip = <<>>
    /\ before_nodes = <<>>
    /\ diff = NoDiff
    /\ diff_all = NoDiffAll
    /\ diff_max_items = DiffMaxItems
    /\ elements = <<1, 2>>
    /\ data_bid = NoBids
    /\ earlier_bid = NoBids
    /\ instances = 2
    /\ NoSession
    /\ NoManager
    /\ NoUnit

NextWalks == InjectSelectors \/ InsertElement \/ RemoveElement

SpecWalks == InitWalks /\ [][NextWalks]_vars

\* concurrent calls to one session, starting before the first open
InitSession == StartCapped(<<>>, "default", NoState, <<>>, DiffMaxItems)

NextSession ==
    \/ \E t \in Threads : \E c \in Calls : Enter(t, c)
    \/ \E t \in Threads : Close(t)
    \/ \E t \in Threads : Launch(t)
    \/ \E t \in Threads : Guard(t)
    \/ \E t \in Threads : PageAction(t)
    \/ \E t \in Threads : ActionResult(t)
    \/ \E t \in Threads : AssignMaps(t)
    \/ \E t \in Threads : AssignLast(t)
    \/ \E t \in Threads : Finish(t)
    \/ \E t \in Threads : Leave(t)
    \/ \E t \in Threads : BenchStart(t)
    \/ \E t \in Threads : BenchEnd(t)
    \/ \E p \in 1..MaxPages : UserClosesTab(p)
    \/ \E t \in Threads : \E e \in events : Dispatch(t, e)

SpecSession == InitSession /\ [][NextSession]_vars

\* ---------------------------------------------------------------------
\* Properties of the data-bid across walks (SpecWalks)
\* ---------------------------------------------------------------------
\* C13: every element instance that exists during two consecutive walks
\* carries the same data-bid, and so the same [data-bid="N"] selector, in
\* both, whatever was inserted or removed in between.
C13_BidIsStable ==
    \A e \in DOMAIN earlier_bid \cap DOMAIN data_bid :
        /\ earlier_bid[e] = data_bid[e]
        /\ _css_selector(earlier_bid[e]) = _css_selector(data_bid[e])

\* ---------------------------------------------------------------------
\* Properties of the changed list and of capping (SpecChanged)
\* ---------------------------------------------------------------------
\* the node a snapshot keeps for a selector: the last one that carries it
LastWith(nodes, s) ==
    nodes[CHOOSE i \in 1..Len(nodes) :
            /\ nodes[i].selector = s
            /\ \A j \in (i + 1)..Len(nodes) : nodes[j].selector # s]

\* how many entries of changed_all are for the node with this hid and field
ChangedCount(hid, field) ==
    Cardinality({i \in 1..Len(diff_all.changed_all) :
                    /\ diff_all.changed_all[i].hid = hid
                    /\ diff_all.changed_all[i].field = field})

\* 1 if the condition holds, else 0
OneIff(cond) == IF cond THEN 1 ELSE 0

\* whether the two nodes differ on state key k
StateKeyDiffers(bn, an, k) ==
    \/ ~(k \in DOMAIN bn.state <=> k \in DOMAIN an.state)
    \/ (k \in DOMAIN bn.state /\ k \in DOMAIN an.state /\ bn.state[k] # an.state[k])

\* how many entries changed_all must hold for a pair of nodes
ExpectedChanges(bn, an) ==
    OneIff(bn.hid # an.hid) + OneIff(bn.text # an.text)
    + Cardinality({k \in DOMAIN bn.state \cup DOMAIN an.state : StateKeyDiffers(bn, an, k)})
    + OneIff(bn.actions # an.actions)

\* C11: for every selector of both snapshots, changed (before capping) has
\* one entry with field hid iff the hids differ, one with field text iff the
\* texts differ, one with field state.k for each state key k whose value
\* differs (a key on one side only differs), one with field actions iff the
\* action lists differ, and no other entry; an element whose hid moved and
\* whose aria-expanded flipped yields exactly two entries.
C11_ChangedPerField ==
    pc = "diffed" =>
        \A s \in Selectors(before_nodes) \cap Selectors(filtered) :
            LET bn == LastWith(before_nodes, s)
                an == LastWith(filtered, s)
            IN  /\ ChangedCount(an.hid, <<"hid">>) = OneIff(bn.hid # an.hid)
                /\ ChangedCount(an.hid, <<"text">>) = OneIff(bn.text # an.text)
                /\ \A k \in {"checked", "aria-expanded"} :
                      ChangedCount(an.hid, <<"state", k>>) =
                          OneIff(StateKeyDiffers(bn, an, k))
                /\ ChangedCount(an.hid, <<"actions">>) = OneIff(bn.actions # an.actions)
                /\ Cardinality({i \in 1..Len(diff_all.changed_all) :
                                   diff_all.changed_all[i].hid = an.hid})
                      = ExpectedChanges(bn, an)

\* an element whose hid moved and whose aria-expanded flipped from false to
\* true, with two changed entries for it and nothing added or removed
C11_Witness ==
    /\ pc = "diffed"
    /\ diff_all.added_all = <<>>
    /\ diff_all.removed_all = <<>>
    /\ \E s \in Selectors(before_nodes) \cap Selectors(filtered) :
          LET bn == LastWith(before_nodes, s)
              an == LastWith(filtered, s)
          IN  /\ bn.hid # an.hid
              /\ "aria-expanded" \in DOMAIN bn.state /\ bn.state["aria-expanded"] = "false"
              /\ "aria-expanded" \in DOMAIN an.state /\ an.state["aria-expanded"] = "true"
              /\ Cardinality({i \in 1..Len(diff_all.changed_all) :
                                 diff_all.changed_all[i].hid = an.hid}) = 2

\* C12: for any max_items >= 0 each of added, removed and changed has at
\* most max_items entries, and has_changes is true whenever a change exists
\* before capping.
C12_ListsAreCapped ==
    pc = "diffed" =>
        /\ Len(diff.added) <= diff_max_items
        /\ Len(diff.removed) <= diff_max_items
        /\ Len(diff.changed) <= diff_max_items
        /\ (diff_all.added_all # <<>> \/ diff_all.removed_all # <<>>
             \/ diff_all.changed_all # <<>>) => diff.has_changes

\* a call whose changed list was cut, once to nothing
C12_Witness ==
    /\ pc = "diffed"
    /\ Len(diff_all.changed_all) > diff_max_items
    /\ diff.changed = <<>>
    /\ diff.has_changes

\* C14: the calls to one session are serialized: a call that is between
\* taking and releasing the lock (the legacy selector click included) is the
\* holder of the lock, so at most one call is there at a time and none makes
\* a page call without the lock.
InsideCall == {t \in Threads : tpc[t] \notin {"idle", "bench"}}

C14_CallsAreSerialized ==
    /\ \A t \in InsideCall : lock = t
    /\ Cardinality(InsideCall) <= 1

C14_Witness ==
    \E t \in Threads : \E u \in Threads \ {t} :
        /\ call[t].op = "legacy_click"
        /\ drove[t]
        /\ tpc[t] = "acted"
        /\ tpc[u] = "idle"
        /\ lock = t

\* C15: whenever a call that holds the lock can read the cached state
\* (after taking the lock and before its own _refresh_dom assigns, and again
\* after that), node_map, xpath_map, the last filtered list and the last
\* result come from one _refresh_dom call on one page, or are all empty.
Reading == {t \in Threads : tpc[t] \in {"entered", "ready", "acted", "finishing", "done"}}

SameSnapshot ==
    /\ {xpath_map.call, last_filtered.call, last_result.call} = {node_map.call}
    /\ {xpath_map.of, last_filtered.of, last_result.of} = {node_map.of}
    /\ IF node_map.call = 0
       THEN {node_map, xpath_map, last_filtered, last_result} = {Empty}
       ELSE /\ node_map.value = last_result.value.node_map
            /\ xpath_map.value = last_result.value.xpath_map
            /\ last_filtered.value = last_result.value.interactive

C15_SnapshotIsWhole == Reading # {} => SameSnapshot

C15_Witness ==
    \E t \in Threads :
        /\ tpc[t] = "finishing"
        /\ entry[t].node_map.call = 1
        /\ node_map.call = 2
        /\ node_map.value # entry[t].node_map.value

\* C16: every write to the active page handle, the cached maps, the list of
\* pending new pages and the download list is made by a thread that holds
\* the lock, the writes of the page-close, new-page and download callbacks
\* included.
C16_WritesHoldLock == unlocked = {}

\* C17: when the page action of a call raises or times out, or the walk or
\* the compressor run of its _refresh_dom raises, the call fails and
\* node_map, xpath_map and the last filtered list are the ones the call found
\* when it started.
RaisedBeforeAssign == {"Timeout", "WalkError", "AttributeError"}

ChangedPage(t) == call[t].op \in NavOps \/ page # entry[t].page

FromThisCall(t, cached) ==
    \/ cached.value = <<>>
    \/ cached.call = call[t].n /\ cached.of = page

C18_NoReferenceSurvives ==
    \A t \in Threads :
        (tpc[t] = "done" /\ outcome[t] = "ok" /\ ChangedPage(t)) =>
            FromThisCall(t, node_map) /\ FromThisCall(t, xpath_map)

\* C19: a call that needs the active page (every operation but close, and
\* open only on a browser already launched), made when there is no active
\* page, fails with NotOpen before any page call and leaves the active page
\* and the cached state as they were.
NeedsPage(t) ==
    /\ call[t].op \notin {"none", "benchmark", "close"}
    /\ call[t].op = "open" => entry[t].browser

C19_NoPageIsNotOpen ==
    \A t \in Threads :
        (tpc[t] = "done" /\ NeedsPage(t) /\ entry[t].page = NoPage) =>
            /\ outcome[t] = "NotOpen"
            /\ ~drove[t]
            /\ Entry = entry[t]

\* the hid of a node operation is no key of the node_map the call found, or
\* maps to an empty selector
UnknownHid(t) ==
    /\ call[t].op \in NodeOps
    /\ \/ call[t].node_id \notin DOMAIN entry[t].node_map.value
       \/ entry[t].node_map.value[call[t].node_id] = <<>>

CachesKept(t) ==
    /\ node_map = entry[t].node_map
    /\ xpath_map = entry[t].xpath_map
    /\ last_filtered = entry[t].last_filtered

\* C20 as stated: a node operation given an hid that is no key of node_map,
\* or that maps to an empty selector, fails with NodeNotFound before any
\* page call and leaves node_map, xpath_map and the last filtered list
\* unchanged.
C20_UnknownHidIsNodeNotFound ==
    \A t \in Threads :
        (tpc[t] = "done" /\ UnknownHid(t)) =>
            /\ outcome[t] = "NodeNotFound"
            /\ ~drove[t]
            /\ CachesKept(t)

\* C20 amended: such a call fails before any page call and leaves node_map,
\* xpath_map and the last filtered list unchanged; it fails with NotOpen
\* when the session has no active page and with NodeNotFound otherwise.
C20_UnknownHidFails ==
    \A t \in Threads :
        (tpc[t] = "done" /\ UnknownHid(t)) =>
            /\ outcome[t] \in {"NodeNotFound", "NotOpen"}
            /\ entry[t].page = NoPage => outcome[t] = "NotOpen"
            /\ outcome[t] = "NotOpen" => page = NoPage
            /\ ~drove[t]
            /\ CachesKept(t)

C20_Witness ==
    \E t \in Threads :
        /\ tpc[t] = "done"
        /\ call[t].op = "click"
        /\ call[t].node_id \in DOMAIN node_map.value
        /\ node_map.value[call[t].node_id] = <<>>
        /\ outcome[t] = "NodeNotFound"
        /\ page # NoPage

\* ---------------------------------------------------------------------
\* The scripts directory under calls made one after the other
\* ---------------------------------------------------------------------
InitStore == StartCapped(<<>>, "default", NoState, <<>>, DiffMaxItems)

\* the contents and the time stamp the calls of this specification write
StoreCodes == {Code(1, TRUE, "template", <<>>), BrokenCode}

NextStore ==
    \/ \E n \in ScriptNames, c \in StoreCodes :
          AllIdle /\ write_script(n, c, 1)
    \/ \E n \in ScriptNames : AllIdle /\ delete_script(n)
    \/ \E n \in LoadNames : AllIdle /\ LoadEnter("session", n)
    \/ LoadCheck("session")
    \/ LoadExec("session")
    \/ LoadStore("session")
    \/ LoadLeave("session")

SpecStore == InitStore /\ [][NextStore]_vars

\* ---------------------------------------------------------------------
\* One script file that is written, deleted, edited and loaded in turn
\* ---------------------------------------------------------------------
NextCache ==
    \/ \E f \in Editable, c \in Codes, m \in Mtimes :
          AllIdle /\ write_script(f, c, m)
    \/ \E f \in Editable : AllIdle /\ delete_script(f)
    \/ \E f \in Editable, c \in Codes, m \in Mtimes :
          AllIdle /\ Modify(f, c, m)
    \/ \E f \in Editable : AllIdle /\ LoadEnter("session", f)
    \/ LoadCheck("session")
    \/ LoadExec("session")
    \/ LoadStore("session")
    \/ LoadLeave("session")

SpecCache == InitStore /\ [][NextCache]_vars

\* ---------------------------------------------------------------------
\* _load_script called from a session operation and from a benchmark
\* ---------------------------------------------------------------------
NextLoad ==
    \/ \E t \in Threads2, n \in LoadNames : LoadEnter(t, n)
    \/ \E t \in Threads2 : LoadCheck(t)
    \/ \E t \in Threads2 : LoadExec(t)
    \/ \E t \in Threads2 : LoadStore(t)
    \/ \E t \in Threads2 : LoadLeave(t)
    \/ \E c \in StoreCodes : AllIdle /\ write_script("mine", c, 1)
    \/ AllIdle /\ delete_script("mine")

SpecLoad == InitStore /\ [][NextLoad]_vars


\* C23: whenever _load_script(name) returns, in a run of write_script,
\* delete_script, outside edits (each giving the file another modification
\* time) and loads made one after the other, it returns the module executed
\* from the content the file has now; for a missing file it returns None and
\* _cache holds no entry for the name.
C23_LoadIsCurrent ==
    \A t \in Threads2 :
        loader[t].pc = "returned" =>
            LET name == loader[t].name
            IN  /\ loader[t].out = "module" =>
                     loader[t].got = ModuleOf(files[FileOf(name)].code)
                /\ ~IsFile(name) =>
                     loader[t].out = "None" /\ cache[name] = NoCacheEntry

\* C24: the part of _load_script from the cache check to the cache store is
\* never being executed for one name by two threads at once.
C24_SectionIsExclusive ==
    \A t \in Threads2, o \in Threads2 :
        (t # o /\ InSection(t) /\ InSection(o)) =>
            loader[t].name # loader[o].name

\* the files of default and of the official scripts
Builtins == {"default"} \cup (OFFICIAL_SCRIPTS \cap FileNames)

\* C25: after a write_script or delete_script call, whatever its name and
\* code, the files of default and of every official script are as they were
\* before the call; a call that names default or an official script fails
\* with an error and leaves the directory and _cache as they were.
C25_BuiltinsProtected ==
    crud.call.op # "none" =>
        /\ \A b \in Builtins : files[b] = crud.files[b]
        /\ crud.call.name \in Builtins =>
              /\ crud.call.outcome = "ValueError"
              /\ files = crud.files
              /\ cache = crud.cache

\* C26: write_script with code that does not compile fails and leaves the
\* file of that name and its cache entry exactly as they were; a write that
\* succeeds wrote code that compiles.
C26_SyntaxCheckedBeforeWrite ==
    crud.call.op = "write" =>
        /\ ~crud.call.code.compiles =>
              /\ crud.call.outcome \in {"SyntaxError", "ValueError"}
              /\ files[FileOf(crud.call.name)] = crud.files[FileOf(crud.call.name)]
              /\ cache[crud.call.name] = crud.cache[crud.call.name]
        /\ crud.call.outcome = "ok" =>
              /\ crud.call.code.compiles
              /\ files[FileOf(crud.call.name)].code = crud.call.code

\* a write of code that does not compile over a script that is on disk and
\* in _cache has failed
C26_Witness ==
    /\ crud.call.op = "write"
    /\ crud.call.name = "mine"
    /\ ~crud.call.code.compiles
    /\ crud.call.outcome = "SyntaxError"
    /\ IsFile("mine")
    /\ cache["mine"] # NoCacheEntry

\* C27: write_script with the name __init__ fails with a validation error
\* and writes no file.
C27_ReservedNameRejected ==
    (crud.call.op = "write" /\ crud.call.name = "__init__") =>
        /\ crud.call.outcome = "ValueError"
        /\ files = crud.files

\* ---------------------------------------------------------------------
\* run on a URL, a configuration and a directory drawn from small sets
\* ---------------------------------------------------------------------
Urls == {<<"g">>, <<"w">>, <<"g", "w">>, <<"w", "g">>}

Rule(pattern, name) == [pattern |-> pattern, script |-> name]

RuleChoices == {Rule(<<>>, "mine"), Rule(<<"g", "*">>, ""),
                Rule(<<"g", "*">>, "mine"), Rule(<<"*">>, "google_search")}

\* google_search.py as shipped, or replaced by a script whose process raises
\* or that defines no process
SearchChoices ==
    {File(1, Code(0, TRUE, proc, <<<<"g", "*">>>>)) :
        proc \in {"builtin", "raises", "none"}}

\* no user script, or one from the template, one that raises, one without
\* process, one that does not compile
MineChoices ==
    {NoFile,
     File(1, Code(1, TRUE, "template", <<<<"*">>>>)),
     File(1, Code(2, TRUE, "raises", <<<<"?", "w">>>>)),
     File(1, Code(3, TRUE, "none", <<<<"*">>>>)),
     File(1, Code(4, FALSE, "none", <<<<"*">>>>))}

\* default.py and a package file, both declaring a pattern that matches
\* every URL
RunFiles(search, mine) ==
    [f \in FileNames |->
        CASE f = "default" -> File(1, Code(0, TRUE, "builtin", <<<<"*">>>>))
          [] f = "__init__" -> File(1, Code(0, TRUE, "none", <<<<"*">>>>))
          [] f = "google_search" -> search
          [] OTHER -> mine]

RunPages == {RawList(<<List, ItemB, Footer>>, <<0, 1, 0>>),
             RawList(<<LinkB, Footer>>, <<0, 0>>)}

InitRun ==
    \E len \in 0..MaxRules :
        \E rs \in [1..len -> RuleChoices], u \in Urls,
           ds \in SUBSET {"google_search", "mine"},
           search \in SearchChoices, mine \in MineChoices, nodes \in RunPages :
            /\ StartPage(nodes, "default", NoState, <<>>, DiffMaxItems)
            /\ StartManager(u, rs, ds, RunFiles(search, mine))
            /\ NoUnit

NextRun == run

SpecRun == InitRun /\ [][NextRun]_vars

\* the rules that have a pattern and a script and whose pattern matches
MatchingRules ==
    {i \in 1..Len(rules) : /\ rules[i].pattern # <<>>
                           /\ rules[i].script # ""
                           /\ fnmatch(url, rules[i].pattern)}

\* the positions of FileOrder whose script is on disk, is not default, not
\* "_"-prefixed, not disabled, and declares a pattern that matches
MatchingScripts ==
    {i \in 1..Len(FileOrder) :
        LET f == FileOrder[i]
        IN  /\ files[f] # NoFile
            /\ f \notin {"default", "__init__"}
            /\ f \notin disabled
            /\ files[f].code.compiles
            /\ \E k \in 1..Len(files[f].code.patterns) :
                  /\ files[f].code.patterns[k] # <<>>
                  /\ fnmatch(url, files[f].code.patterns[k])}

\* the least member of a non-empty set of positions
Least(S) == CHOOSE i \in S : \A j \in S : i <= j

\* C21: the script selected for the URL is that of the first rule, in list
\* order and leaving out rules with an empty pattern or script, whose glob
\* matches, whether or not a script declares a matching pattern; with no
\* such rule it is the first script in sorted file-name order, leaving out
\* default, "_"-prefixed files and disabled scripts, that declares a
\* matching pattern; with no such script it is default. A disabled script
\* is not selected unless a rule names it.
C21_TwoTierMatch ==
    matched # "" =>
        /\ matched = IF MatchingRules # {} THEN rules[Least(MatchingRules)].script
                     ELSE IF MatchingScripts # {}
                          THEN FileOrder[Least(MatchingScripts)]
                          ELSE "default"
        /\ MatchingRules = {} => matched \notin disabled

\* a rule won although a script declares a matching pattern
C21_Witness ==
    /\ matched = "mine"
    /\ MatchingRules # {}
    /\ MatchingScripts # {}
    /\ FileOrder[Least(MatchingScripts)] = "google_search"

\* C22: whenever the selected script is missing, has no process or its
\* process raises, run raises nothing and returns the snapshot assembled
\* from the default compressor's output on the same raw nodes.
C22_FailureFallsBackToDefault ==
    (matched # "" /\ (\/ files[matched] = NoFile
                      \/ /\ files[matched].code.compiles
                         /\ files[matched].code.proc \in {"none", "raises"})) =>
        /\ pc = "snapshot"
        /\ filtered = process(dom_nodes)
        /\ result = assemble_result(dom_nodes, process(dom_nodes))

\* google_search was selected, its process raised, and the snapshot differs
\* from what the script as shipped gives for the page
C22_Witness ==
    /\ matched = "google_search"
    /\ files["google_search"].code.proc = "raises"
    /\ pc = "snapshot"
    /\ result # assemble_result(dom_nodes,
                    ScriptProcess("google_search", dom_nodes,
                                  _resolve_settings("google_search", NoState)))

\* ---------------------------------------------------------------------
\* Long lists handed to _truncate_long_lists
\* ---------------------------------------------------------------------
ListLens == 196..205

InitLists ==
    \E n \in ListLens, every \in {0, 1, 3, 50}, other \in {0, 2, 4} :
        /\ StartPage(<<>>, "default", NoState, <<>>, DiffMaxItems)
        /\ NoManager
        /\ html = NoHtml
        /\ config = DEFAULTS
        /\ list_tree = ListTree(n, every, other)
        /\ truncated = <<>>
        /\ NoStage

NextLists == Truncate

SpecLists == InitLists /\ [][NextLists]_vars

\* the children of the list: all of one tag, and how many hold something
\* clickable
SameTag(children) == \A i \in 1..Len(children) : children[i].tag = children[1].tag

ClickableCount(children) ==
    Cardinality({i \in 1..Len(children) : _has_interactive(children[i])})

\* C28: a node with 200 children of one tag, 4 of which (one per 50) hold a
\* clickable element, keeps all 200 children; the same node with 200 inert
\* children keeps the first 10 followed by one placeholder whose text is
\* "+190 more (200 total)".
C28_ListWithClickablesIsKept ==
    (truncated # <<>> /\ Len(list_tree[1].children) = 200
                      /\ SameTag(list_tree[1].children)) =>
        LET before == list_tree[1].children
            after == truncated[1].children
        IN  /\ ClickableCount(before) = 4 => after = before
            /\ ClickableCount(before) = 0 =>
                  /\ Len(after) = 11
                  /\ SubSeq(after, 1, 10) = SubSeq(before, 1, 10)
                  /\ after[11].tag = EllipsisTag
                  /\ after[11].text =
                        <<"+", "1", "9", "0", " ", "m", "o", "r", "e", " ", "(",
                          "2", "0", "0", " ", "t", "o", "t", "a", "l", ")">>

\* ---------------------------------------------------------------------
\* Pages with dialog elements
\* ---------------------------------------------------------------------
PopupKinds == {DialogTag, Dialog, ParaA, LinkB}

InitPopups ==
    \E len \in 1..MaxNodes :
        \E ks \in [1..len -> PopupKinds], ds \in WalkDepths(len, MaxDepth) :
            Start(RawList(ks, ds), "default", NoState, <<>>)

NextPopups == Run

SpecPopups == InitPopups /\ [][NextPopups]_vars

\* the nodes of a tree, at any depth, that carry the tag and have children
RECURSIVE ParentsTagged(_, _)
ParentsTagged(roots, tag) ==
    UNION {({roots[i]} \cap {n \in {roots[i]} : n.tag = tag /\ n.children # <<>>})
           \cup ParentsTagged(roots[i].children, tag) : i \in 1..Len(roots)}

\* the j-th node of a flat list is followed by a node below it
HasDescendant(nodes, j) == j < Len(nodes) /\ nodes[j + 1].depth > nodes[j].depth

\* C29: a node with tag dialog and no role attribute that has descendants
\* when the popups are collapsed is emitted as one node whose text is
\* "··· N children", N the number of its descendants, with no descendant
\* emitted.
C29_DialogTagCollapses ==
    pc = "snapshot" =>
        \A d \in ParentsTagged(SimplifiedTree(dom_nodes), "dialog") :
            \E j \in 1..Len(filtered) :
                /\ filtered[j].selector = d.selector
                /\ filtered[j].text = PopupSummary(_count_nodes(d.children))
                /\ ~HasDescendant(filtered, j)

\* ---------------------------------------------------------------------
\* Documents with inline links, parsed and compressed
\* ---------------------------------------------------------------------
\* what a paragraph holds: a string, a link with text, a link that shows
\* only an icon, a span with text
ItemChoices(bid) ==
    {TextNode(TextA),
     Element("a", bid, <<<<"href", "">>>>, <<>>, <<TextNode(TextB)>>),
     Element("a", bid, <<<<"href", "">>>>, <<"x">>, <<>>),
     Element("span", bid, <<>>, <<>>, <<TextNode(TextB)>>),
     Element("b", bid, <<>>, <<>>,
             <<Element("a", bid + MaxNodes, <<<<"href", "">>>>, <<>>, <<TextNode(TextA)>>)>>)}

\* <body><p>items</p></body>
Body(items) ==
    Element("body", 0, <<>>, <<>>, <<Element("p", 1, <<>>, <<>>, items)>>)

InitParse ==
    \E len \in 1..MaxNodes :
        \E items \in [1..len -> UNION {ItemChoices(1 + i) : i \in 1..len}] :
            /\ \A i \in 1..len : items[i] \in ItemChoices(1 + i)
            /\ StartPage(<<>>, "default", NoState, <<>>, DiffMaxItems)
            /\ NoManager
            /\ html = Body(items)
            /\ config = DEFAULTS
            /\ list_tree = <<>>
            /\ truncated = <<>>
            /\ NoStage

NextParse ==
    \/ Parse
    \/ dom_nodes # <<>> /\ Run

SpecParse == InitParse /\ [][NextParse]_vars

\* the elements of a document
RECURSIVE Elements(_)
Elements(el) ==
    UNION {IF IsTag(el.children[i])
           THEN {el.children[i]} \cup Elements(el.children[i]) ELSE {}
           : i \in 1..Len(el.children)}

\* the element a raw node was made from
ElementOf(n) == CHOOSE e \in Elements(html) : BidSelector(e.bid) = n.selector

\* the lines of the tree whose hid the node map resolves to the selector
LinesOf(selector) ==
    {i \in 1..Len(result.tree) :
        /\ result.tree[i].hid \in DOMAIN result.node_map
        /\ result.node_map[result.tree[i].hid] = selector}

\* the raw node above the i-th one
ParentOf(i) ==
    CHOOSE j \in 1..(i - 1) :
        /\ dom_nodes[j].depth < dom_nodes[i].depth
        /\ \A k \in (j + 1)..(i - 1) : dom_nodes[k].depth >= dom_nodes[i].depth

\* C30: every element parse_dom marks inlined has no line of its own in the
\* tree, and the line of its parent carries its text between angle marks;
\* for an inlined element with no text of its own the parent's line still
\* carries the marks.
C30_InlinedIsMarkedInParent ==
    pc = "snapshot" =>
        \A i \in 1..Len(dom_nodes) :
            dom_nodes[i].inlined =>
                /\ LinesOf(dom_nodes[i].selector) = {}
                /\ \E l \in LinesOf(dom_nodes[ParentOf(i)].selector) :
                      IF get_text(ElementOf(dom_nodes[i])) # <<>>
                      THEN Contains(result.tree[l].text,
                                    <<LAngle>> \o get_text(ElementOf(dom_nodes[i]))
                                    \o <<RAngle>>)
                      ELSE LAngle \in Range(result.tree[l].text)

\* ---------------------------------------------------------------------
\* Short lists truncated under a site script's settings
\* ---------------------------------------------------------------------
ChildKinds == {ItemB, ParaA, LinkB}

\* a list whose children are of the given kinds
ListOf(ks) ==
    <<Branch(List, 1, 0, [i \in 1..Len(ks) |-> Branch(ks[i], 1 + i, 1, <<>>)])>>

InitSettings ==
    \E len \in 0..(MaxOverride + 2) :
        \E ks \in [1..len -> ChildKinds],
           user \in OverrideChoices \ {NoState} :
            /\ StartPage(<<>>, "google_search", user, <<>>, DiffMaxItems)
            /\ NoManager
            /\ html = NoHtml
            /\ config = DEFAULTS
            /\ list_tree = ListOf(ks)
            /\ truncated = <<>>
            /\ NoStage

NextSettings == Truncate

SpecSettings == InitSettings /\ [][NextSettings]_vars

\* the child list ends in the placeholder
IsTruncated(children) ==
    children # <<>> /\ children[Len(children)].tag = EllipsisTag

\* C33: a node with n children is truncated if and only if n > max_items,
\* at least 70% of the children share one tag and at most 30% of them are or
\* contain a node with actions; a truncated node keeps exactly its first
\* show_head children, in order, followed by one placeholder with text
\* "+K more (N total)", N = n, K = n - show_head, K >= 1.
C33_TruncationRule ==
    truncated # <<>> =>
        LET before == list_tree[1].children
            after == truncated[1].children
            n == Len(before)
            max_items == MaxItemsOf(script, overrides)
            show_head == ShowHeadOf(script, overrides)
        IN  /\ IsTruncated(after) <=>
                  /\ n > max_items
                  /\ 10 * TopTagCount(before) >= 7 * n
                  /\ 10 * ClickableCount(before) <= 3 * n
            /\ ~IsTruncated(after) => after = before
            /\ IsTruncated(after) =>
                  /\ Len(after) = show_head + 1
                  /\ SubSeq(after, 1, show_head) = SubSeq(before, 1, show_head)
                  /\ after[show_head + 1].text = MoreText(n, show_head)
                  /\ n - show_head >= 1

\* ---------------------------------------------------------------------
\* One pass of _simplify over a node and its children
\* ---------------------------------------------------------------------
MaxChildren == 3     \* children of the node one pass is run on

DivA        == Kind("div", <<>>, TextA, TextA, <<>>, NoState, FALSE)
DivWithId   == Kind("div", <<<<"id", "x">>>>, <<>>, <<>>, <<>>, NoState, FALSE)
DivWithCls  == Kind("div", <<<<"class", "x">>>>, <<>>, <<>>, <<>>, NoState, FALSE)
DivSelected == Kind("div", <<>>, <<>>, <<>>, <<>>, [selected |-> "true"], FALSE)
Presentational == Kind("p", <<<<"role", "presentation">>>>, <<>>, <<>>, <<>>, NoState, FALSE)
EmptyPara   == Kind("p", <<>>, <<>>, <<>>, <<>>, NoState, FALSE)
MarkedText  == <<LAngle, "a", RAngle>>
MarkedDiv   == Kind("div", <<>>, MarkedText, MarkedText, <<>>, NoState, FALSE)
MarkedPara  == Kind("p", <<>>, MarkedText, MarkedText, <<>>, NoState, FALSE)

PassParents == {EmptyDiv, DivA, DivWithId, DivWithCls, DivSelected,
                Presentational, EmptyPara, ParaA, MarkedDiv}
PassChildren == {ParaA, ItemB, EmptyDiv, LinkB, MarkedPara}

\* the node of kind k with leaf children of the kinds ks
NodeOf(k, ks) ==
    <<Branch(k, 1, 0, [i \in 1..Len(ks) |-> Branch(ks[i], 1 + i, 1, <<>>)])>>

\* roots = _simplify(roots), once
Simplify ==
    /\ stage_in # <<>>
    /\ stage_out = NotRun
    /\ stage_out' = Returned(_simplify(stage_in))
    /\ UNCHANGED <<html, config, list_tree, truncated, stage_in>>
    /\ UNCHANGED <<pipeVars, walkVars, sessVars, mgrVars>>

InitSimplify ==
    \E len \in 0..MaxChildren :
        \E k \in PassParents, ks \in [1..len -> PassChildren] :
            /\ StartPage(<<>>, "default", NoState, <<>>, DiffMaxItems)
            /\ NoManager
            /\ html = NoHtml
            /\ config = DEFAULTS
            /\ list_tree = <<>>
            /\ truncated = <<>>
            /\ stage_in = NodeOf(k, ks)
            /\ stage_out = NotRun

NextSimplify == Simplify

SpecSimplify == InitSimplify /\ [][NextSimplify]_vars

\* the selectors of a list of nodes, in order
SelectorSeq(nodes) == [i \in 1..Len(nodes) |-> nodes[i].selector]

\* wrapper tag or transparent role, and no state.selected
ClaimedCollapsible(node) ==
    /\ \/ node.tag \in WRAPPER_TAGS
       \/ \E i \in 1..Len(node.attrs) :
             node.attrs[i][1] = "role" /\ node.attrs[i][2] \in TRANSPARENT_ROLES
    /\ ~("selected" \in DOMAIN node.state /\ node.state["selected"] # "")

\* an attribute other than a transparent role and an id
HasMeaningfulAttr(node) ==
    \E i \in 1..Len(node.attrs) :
        /\ node.attrs[i][1] # "id"
        /\ ~(node.attrs[i][1] = "role" /\ node.attrs[i][2] \in TRANSPARENT_ROLES)

\* the pass left the node in place, above what the pass left of its children
KeptWithChildren(node, out) ==
    /\ Len(out) = 1
    /\ out[1].selector = node.selector
    /\ SelectorSeq(out[1].children) = SelectorSeq(_simplify(node.children))

\* the pass put what it left of the node's children in the node's place:
\* nothing, the only child, or the children spliced
GaveWayToChildren(node, out) ==
    SelectorSeq(out) = SelectorSeq(_simplify(node.children))

\* the text of the node is repeated by its children, so that the pass's
\* parent/child de-duplication clears it
TextRepeated(node) ==
    LET kids == _simplify(node.children)
    IN  /\ kids # <<>>
        /\ DedupParentText(node.text, _children_text([node EXCEPT !.children = kids]))

\* C34 as stated: a node with text is kept, whatever its children say
C34_TextAlwaysKeeps ==
    stage_out.ran =>
        LET node == stage_in[1]
        IN  /\ (ClaimedCollapsible(node) /\ node.text = <<>> /\ ~HasMeaningfulAttr(node))
                  => GaveWayToChildren(node, stage_out.nodes)
            /\ (~ClaimedCollapsible(node) \/ node.text # <<>> \/ HasMeaningfulAttr(node))
                  => KeptWithChildren(node, stage_out.nodes)

\* C34: in one simplify pass a collapsible node (wrapper tag or transparent
\* role, no state.selected) with no text and no meaningful attribute is
\* dropped when it has no children, replaced by its only child when it has
\* one, and spliced into its parent when it has several; a node that is not
\* collapsible, or has a meaningful attribute, or has text left after the
\* pass's parent/child text de-duplication, is kept together with its
\* children.
C34_CollapseRule ==
    stage_out.ran =>
        LET node == stage_in[1]
        IN  /\ (ClaimedCollapsible(node) /\ node.text = <<>> /\ ~HasMeaningfulAttr(node))
                  => GaveWayToChildren(node, stage_out.nodes)
            /\ (\/ ~ClaimedCollapsible(node)
                \/ (node.text # <<>> /\ ~TextRepeated(node))
                \/ HasMeaningfulAttr(node))
                  => KeptWithChildren(node, stage_out.nodes)

\* a wrapper whose text its only child repeats made way for that child
C34_Witness ==
    /\ stage_out.ran
    /\ stage_in[1].tag = "div"
    /\ stage_in[1].text = TextA
    /\ Len(stage_in[1].children) = 1
    /\ Len(stage_out.nodes) = 1
    /\ stage_out.nodes[1].selector = stage_in[1].children[1].selector

\* ---------------------------------------------------------------------
\* Overlap pruning of one pass of _simplify
\* ---------------------------------------------------------------------
MinOverlap == 8      \* len(shorter) >= 8 of _text_overlap
MaxPad == 2          \* characters on either side of the shared text

\* the text of n times the character c
RECURSIVE Rep(_, _)
Rep(c, n) == IF n = 0 THEN <<>> ELSE <<c>> \o Rep(c, n - 1)

Para(text) == Kind("p", <<>>, text, text, <<>>, NoState, FALSE)
Link(text) == Kind("a", <<<<"href", "">>>>, text, text, <<"click">>, NoState, FALSE)
TextC == <<"c">>

\* a <p> with the text `outer` above an optional <p> "c" and a child with
\* the text `inner`, which is a link when `linked`
OverlapTree(outer, inner, lead, linked) ==
    NodeOf(Para(outer),
           (IF lead THEN <<Para(TextC)>> ELSE <<>>)
           \o <<IF linked THEN Link(inner) ELSE Para(inner)>>)

InitOverlap ==
    \E n \in (MinOverlap - 2)..(MinOverlap + 1), m \in 0..MinOverlap :
        \E i \in 0..MaxPad, lead \in BOOLEAN, linked \in BOOLEAN, swap \in BOOLEAN :
            LET short == Rep("b", n)
                long == Rep("a", i) \o short \o Rep("a", m)
            IN  /\ StartPage(<<>>, "default", NoState, <<>>, DiffMaxItems)
                /\ NoManager
                /\ html = NoHtml
                /\ config = DEFAULTS
                /\ list_tree = <<>>
                /\ truncated = <<>>
                /\ stage_in = IF swap THEN OverlapTree(short, long, lead, linked)
                              ELSE OverlapTree(long, short, lead, linked)
                /\ stage_out = NotRun

NextOverlap == Simplify

SpecOverlap == InitOverlap /\ [][NextOverlap]_vars

\* equal, or the shorter inside the longer, at least 8 characters long and
\* at least half as long as the longer
OverlapFromHalf(p, c) ==
    LET shorter == IF Len(c) <= Len(p) THEN c ELSE p
        longer == IF Len(c) <= Len(p) THEN p ELSE c
    IN  \/ p = c
        \/ /\ Contains(longer, shorter)
           /\ Len(shorter) >= 8
           /\ 2 * Len(shorter) >= Len(longer)

\* C35: under a parent that keeps its text, overlap pruning clears the text
\* of a child without actions whenever the child's text equals the parent's
\* or the shorter of the two is contained in the longer, is at least 8
\* characters long and is at least 50% of the longer's length, the boundary
\* included; the text of a child with actions is never cleared.
C35_HalfOverlapIsPruned ==
    (stage_out.ran /\ stage_out.nodes[1].text # <<>>) =>
        LET node == stage_in[1]
            out == stage_out.nodes[1]
        IN  \A i \in 1..Len(node.children) :
                LET child == node.children[i]
                IN  /\ child.actions # <<>> => out.children[i].text = child.text
                    /\ (child.actions = <<>> /\ OverlapFromHalf(node.text, child.text))
                          => out.children[i].text = <<>>

\* ---------------------------------------------------------------------
\* The noise pre-filter of a specialised script and the tree built after it
\* ---------------------------------------------------------------------
NoiseScripts == {"google_search", "youtube", "stackoverflow", "wikipedia"}
NoiseKinds == {ParaA, Footer, LinkB, EmptyDiv}

\* filtered = [n for n in dom_nodes if not _is_noise(n, cfg)] and, for
\* Wikipedia, the section loop; tree = _flat_to_tree(filtered)
Rebuild ==
    /\ stage_in # <<>>
    /\ ~stage_out.ran
    /\ stage_out' = Returned(_flat_to_tree(
                        PreFilter(script, stage_in, _resolve_settings(script, overrides))))
    /\ UNCHANGED <<html, config, list_tree, truncated, stage_in>>
    /\ UNCHANGED <<pipeVars, walkVars, sessVars, mgrVars>>

InitNoise ==
    \E len \in 1..MaxNodes :
        \E ks \in [1..len -> NoiseKinds], ds \in WalkDepths(len, MaxDepth),
           name \in NoiseScripts :
            /\ StartPage(<<>>, name, NoState, <<>>, DiffMaxItems)
            /\ NoManager
            /\ html = NoHtml
            /\ config = DEFAULTS
            /\ list_tree = <<>>
            /\ truncated = <<>>
            /\ stage_in = RawList(ks, ds)
            /\ stage_out = NotRun

NextNoise == Rebuild

SpecNoise == InitNoise /\ [][NextNoise]_vars

\* the parent of the i-th node of a pre-order list in the raw tree (0: none)
RawParent(nodes, i) ==
    LET above == {j \in 1..(i - 1) : nodes[j].depth < nodes[i].depth}
    IN  IF above = {} THEN 0 ELSE CHOOSE j \in above : \A k \in above : k <= j

\* the nearest ancestor of the i-th node whose selector is in `kept` (0: none)
RECURSIVE NearestSurvivor(_, _, _)
NearestSurvivor(nodes, i, kept) ==
    LET p == RawParent(nodes, i)
    IN  IF p = 0 THEN 0
        ELSE IF nodes[p].selector \in kept THEN p
        ELSE NearestSurvivor(nodes, p, kept)

\* the pairs <<selector of a node, selector of its parent>> of a forest; the
\* roots are below `above`
RECURSIVE ParentPairs(_, _)
ParentPairs(nodes, above) ==
    UNION {{<<nodes[i].selector, above>>}
           \cup ParentPairs(nodes[i].children, nodes[i].selector) :
           i \in 1..Len(nodes)}

\* C36: in the tree rebuilt after the noise pre-filter of a specialised
\* compressor, the parent of every surviving node is its nearest surviving
\* ancestor in the raw tree (none: the node is a root); the descendants of a
\* removed noise node are never attached under a preceding sibling of the
\* removed node.
C36_AncestryKept ==
    stage_out.ran =>
        LET kept == Selectors(PreFilter(script, stage_in,
                                        _resolve_settings(script, overrides)))
        IN  \A i \in 1..Len(stage_in) :
                stage_in[i].selector \in kept =>
                    LET a == NearestSurvivor(stage_in, i, kept)
                    IN  <<stage_in[i].selector,
                          IF a = 0 THEN <<>> ELSE stage_in[a].selector>>
                            \in ParentPairs(stage_out.nodes, <<>>)

\* ---------------------------------------------------------------------
\* The section loop of the Wikipedia script
\* ---------------------------------------------------------------------
NotesText == <<"N", "o", "t", "e", "s">>

Heading(tag, text) == Kind(tag, <<>>, text, text, <<>>, NoState, FALSE)

SectionKinds == {Heading("h2", NotesText), Heading("h3", NotesText),
                 Heading("h2", TextA), Heading("h3", TextA), ParaA}

InitSections ==
    \E len \in 1..MaxNodes :
        \E ks \in [1..len -> SectionKinds], ds \in WalkDepths(len, MaxDepth) :
            /\ StartPage(<<>>, "wikipedia", NoState, <<>>, DiffMaxItems)
            /\ NoManager
            /\ html = NoHtml
            /\ config = DEFAULTS
            /\ list_tree = <<>>
            /\ truncated = <<>>
            /\ stage_in = RawList(ks, ds)
            /\ stage_out = NotRun

NextSections == Rebuild

SpecSections == InitSections /\ [][NextSections]_vars

\* the level of a heading: 2 for h2, 3 for h3
HeadingLevel(tag) == IF tag = "h2" THEN 2 ELSE 3

\* the nodes kept when a skipped section ends at the next heading of the
\* same or a higher level (level 0: not skipping)
RECURSIVE KeptByLevel(_, _, _)
KeptByLevel(nodes, i, skip_level) ==
    IF i > Len(nodes) THEN <<>>
    ELSE LET n == nodes[i]
             heading == n.tag \in {"h2", "h3"}
         IN  IF heading /\ Strip(n.text) \in _SKIP_SECTIONS
             THEN KeptByLevel(nodes, i + 1, HeadingLevel(n.tag))
             ELSE IF skip_level # 0 /\ ~(heading /\ HeadingLevel(n.tag) <= skip_level)
             THEN KeptByLevel(nodes, i + 1, skip_level)
             ELSE <<n>> \o KeptByLevel(nodes, i + 1, 0)

\* C37: with skip_references on, the Wikipedia compressor drops a heading
\* whose title is in the skip list and every node after it until the next
\* heading of the same or a higher level (an h2 after a skipped h2 or h3,
\* an h3 after a skipped h3); an h3 after a skipped h2 does not end the
\* skipping; the heading that ends it is kept with the nodes that follow it
\* unless it is itself skip-listed.
C37_SectionEndsAtSameLevel ==
    stage_out.ran =>
        SelectorSeq(_tree_to_flat(stage_out.nodes))
            = SelectorSeq(KeptByLevel(stage_in, 1, 0))

\* ---------------------------------------------------------------------
\* Documents parsed under small limits
\* ---------------------------------------------------------------------
MaxFragments == 2      \* children of <body>
MaxConfigNodes == 4    \* largest max_nodes configured
MaxConfigDepth == 3    \* largest max_depth configured
BidStride == 10        \* data-bid numbers set aside for one child of <body>

Leaf(tag, bid) == Element(tag, bid, <<>>, <<>>, <<TextNode(TextA)>>)

\* what <body> holds: a string, a paragraph, a chain of wrappers, a table
\* row with a link in one cell, a hidden block, a script, a block of two
Fragments(b) ==
    {TextNode(TextA),
     Leaf("p", b),
     Element("div", b, <<>>, <<>>,
             <<Element("div", b + 1, <<>>, <<>>, <<Leaf("p", b + 2)>>)>>),
     Element("table", b, <<>>, <<>>,
             <<Element("tr", b + 1, <<>>, <<>>,
                       <<Element("td", b + 2, <<>>, <<>>, <<Leaf("a", b + 3)>>),
                         Leaf("td", b + 4)>>)>>),
     WithAttrs(Element("div", b, <<>>, <<>>, <<Leaf("p", b + 1)>>),
               [k \in {"hidden"} |-> ""]),
     Leaf("script", b),
     Element("div", b, <<>>, <<>>, <<Leaf("p", b + 1), Leaf("p", b + 2)>>)}

InitBounds ==
    \E len \in 1..MaxFragments :
        \E fs \in [1..len -> UNION {Fragments(BidStride * i) : i \in 1..len}],
           max_nodes \in 0..MaxConfigNodes, max_depth \in 0..MaxConfigDepth :
            /\ \A i \in 1..len : fs[i] \in Fragments(BidStride * i)
            /\ StartPage(<<>>, "default", NoState, <<>>, DiffMaxItems)
            /\ NoManager
            /\ html = Element("body", 0, <<>>, <<>>, fs)
            /\ config = [max_nodes |-> max_nodes, max_depth |-> max_depth]
            /\ list_tree = <<>>
            /\ truncated = <<>>
            /\ NoStage

NextBounds == Parse

SpecBounds == InitBounds /\ [][NextBounds]_vars

\* C32: parse_dom returns at most max_nodes nodes, every node has depth <=
\* max_depth, the idx values are 1..n in emission order, and the list is in
\* pre-order: the first node has depth 0 and each node's depth is at most
\* one more than its predecessor's.
C32_WalkRespectsBounds ==
    /\ Len(dom_nodes) <= config.max_nodes
    /\ \A i \in 1..Len(dom_nodes) :
          /\ dom_nodes[i].depth <= config.max_depth
          /\ dom_nodes[i].idx = i
          /\ IF i = 1 THEN dom_nodes[i].depth = 0
             ELSE dom_nodes[i].depth <= dom_nodes[i - 1].depth + 1

\* both limits cut the walk short: the node limit is reached and a node
\* lies at the depth limit, on a document that holds more and deeper nodes
C32_Witness ==
    LET all == parse_dom(html, DEFAULTS)
    IN  /\ dom_nodes # <<>>
        /\ Len(dom_nodes) = config.max_nodes
        /\ Len(all) > config.max_nodes
        /\ \E i \in 1..Len(dom_nodes) : dom_nodes[i].depth = config.max_depth
        /\ \E i \in 1..Len(all) : all[i].depth > config.max_depth

\* ---------------------------------------------------------------------
\* The dom_changes of click, input_text and fill_text
\* ---------------------------------------------------------------------
\* _attach_dom_diff(before, result, refresh_dom) with refresh_dom on:
\* diff_dom(before, self._last_filtered), where _refresh_dom has stored
\* result["interactive"] in _last_filtered
AttachDomDiff ==
    /\ pc = "snapshot"
    /\ before_nodes # <<>>
    /\ \E added_order \in Orders(Keys(result.interactive) \ Keys(before_nodes)),
          removed_order \in Orders(Keys(before_nodes) \ Keys(result.interactive)),
          common_order \in Orders(Keys(before_nodes) \cap Keys(result.interactive)),
          state_order \in Orders(StateKeys(before_nodes, result.interactive)) :
            /\ diff_all' = DiffLists(before_nodes, result.interactive, added_order,
                                     removed_order, common_order, state_order)
            /\ diff' = DiffReturn(diff_all', DiffMaxItems)
    /\ pc' = "diffed"
    /\ UNCHANGED <<script, overrides, dom_nodes, simplified, filtered, result,
                   again, roundtrip, before_nodes, diff_max_items>>
    /\ UNCHANGED <<walkVars, sessVars, mgrVars, unitVars>>

\* what an element shows before and after the action
ClickChoices == {<<ParaA, 1>>, <<Para(TextB), 1>>, <<ToggleOff, 1>>,
                 <<ToggleOn, 1>>, <<LinkB, 2>>}

\* before = list(self._last_filtered) holds the interactive list of the
\* snapshot taken of the earlier walk
InitClick ==
    \E len0 \in 1..MaxDiffNodes, len \in 1..MaxDiffNodes :
        \E cs0 \in [1..len0 -> ClickChoices], cs \in [1..len -> ClickChoices] :
            /\ StartPage(ElementList(cs, FlatDepths(len)), "default", NoState,
                         InteractiveOf(process(ElementList(cs0, FlatDepths(len0)))),
                         DiffMaxItems)
            /\ NoManager
            /\ html = NoHtml
            /\ config = DEFAULTS
            /\ list_tree = <<>>
            /\ truncated = <<>>
            /\ stage_in = ElementList(cs0, FlatDepths(len0))
            /\ stage_out = NotRun

NextClick == Run \/ AttachDomDiff

SpecClick == InitClick /\ [][NextClick]_vars

\* C39: the dom_changes of click, input_text and fill_text compare the
\* snapshot cached before the action with the one taken after it and hold a
\* `text` change entry for every element whose selector is in both and
\* whose text differs between the two snapshots.
C39_TextChangeReported ==
    pc = "diffed" =>
        \A s \in Selectors(process(stage_in)) \cap Selectors(filtered) :
            LET bn == LastWith(process(stage_in), s)
                an == LastWith(filtered, s)
            IN  bn.text # an.text =>
                    \E i \in 1..Len(diff.changed) :
                        /\ diff.changed[i].field = <<"text">>
                        /\ diff.changed[i].hid = an.hid

\* ---------------------------------------------------------------------
\* browser_manager.py : _inject_selectors, visibility marks and groups
\* ---------------------------------------------------------------------
\* config "switchable_state_classes"
switchable_state_classes ==
    {"active", "current", "show", "showing", "on", "selected", "open",
     "visible", "hide", "hidden", "fade", "in", "out",
     "collapsed", "expanded", "collapsing"}

\* el.setAttribute(k, v)
SetAttr(raw, k, v) == [x \in DOMAIN raw \cup {k} |-> IF x = k THEN v ELSE raw[x]]

\* el.removeAttribute(k) for every k of ks
DropAttrs(raw, ks) == [x \in DOMAIN raw \ ks |-> raw[x]]

\* what the browser computes for the element itself: display none or
\* visibility hidden, from a stylesheet rule that matches it ("rule" holds
\* what the page's stylesheets declare for the element), from its inline
\* style, or from the hidden attribute
ComputedHidden(el) ==
    \/ "rule" \in DOMAIN el.raw
    \/ ("style" \in DOMAIN el.raw /\ StyleHides(el.raw["style"]))
    \/ "hidden" \in DOMAIN el.raw

\* el.children.length === 0
NoElementChildren(el) == \A i \in 1..Len(el.children) : ~IsTag(el.children[i])

\* the element carries data-bhidden = 1 when Phase 2 reaches it
CarriesMark(el) == AttrOf(el, "data-bhidden") = "1"

\* Phase 2 for one element and the elements below it; `concealed`: an
\* ancestor is not displayed, so that the element has an empty rectangle
RECURSIVE MarkVisibility(_, _)
MarkVisibility(el, concealed) ==
    IF ~IsTag(el) THEN el
    ELSE LET kept == DropAttrs(el.raw, {"data-bicon", "data-bgroup"}
                        \cup (IF CarriesMark(el) THEN {} ELSE {"data-bhidden"}))
             marked == \/ CarriesMark(el)
                       \/ ComputedHidden(el)
                       \/ (concealed /\ NoElementChildren(el))
         IN  [el EXCEPT
                 !.raw = IF marked THEN SetAttr(kept, "data-bhidden", "1") ELSE kept,
                 !.children = [i \in 1..Len(el.children) |->
                                  MarkVisibility(el.children[i],
                                                 concealed \/ ComputedHidden(el))]]

\* d.removeAttribute('data-bhidden') for every element below el
RECURSIVE ClearMarksBelow(_)
ClearMarksBelow(el) ==
    [el EXCEPT !.children = [i \in 1..Len(el.children) |->
        LET d == el.children[i]
        IN  IF ~IsTag(d) THEN d
            ELSE ClearMarksBelow([d EXCEPT !.raw = DropAttrs(d.raw, {"data-bhidden"})])]]

\* the class of the child with the state tokens removed
StrippedClass(child) ==
    LET cls == IF "class" \in DOMAIN child.raw THEN child.raw["class"] ELSE <<>>
    IN  SelectSeqRec(cls, [i \in 1..Len(cls) |-> cls[i] \notin switchable_state_classes])

\* Phase 3 for the children of one parent
AnnotateGroups(children) ==
    LET els == {i \in 1..Len(children) : IsTag(children[i])}
        members(i) == {j \in els : /\ children[j].tag = children[i].tag
                                   /\ StrippedClass(children[j]) = StrippedClass(children[i])}
        switchable(i) ==
            /\ Cardinality(members(i)) >= 2
            /\ StrippedClass(children[i]) # <<>>
            /\ \E j \in members(i) : AttrOf(children[j], "data-bhidden") = "1"
            /\ \E j \in members(i) : AttrOf(children[j], "data-bhidden") # "1"
    IN  IF Cardinality(els) < 2 THEN children
        ELSE [i \in 1..Len(children) |->
                IF ~IsTag(children[i]) \/ ~switchable(i) THEN children[i]
                ELSE IF AttrOf(children[i], "data-bhidden") = "1"
                THEN ClearMarksBelow(
                         [children[i] EXCEPT
                             !.raw = SetAttr(DropAttrs(@, {"data-bhidden"}),
                                             "data-bgroup", "inactive")])
                ELSE [children[i] EXCEPT !.raw = SetAttr(@, "data-bgroup", "active")]]

\* Phase 3: every parent of a marked element, parents before their children
RECURSIVE DetectGroups(_)
DetectGroups(el) ==
    IF ~IsTag(el) THEN el
    ELSE LET kids == IF \E i \in 1..Len(el.children) :
                            /\ IsTag(el.children[i])
                            /\ AttrOf(el.children[i], "data-bhidden") = "1"
                     THEN AnnotateGroups(el.children) ELSE el.children
         IN  [el EXCEPT !.children = [i \in 1..Len(kids) |-> DetectGroups(kids[i])]]

\* _inject_selectors on a document without carousel clones, whose elements
\* keep their place (and so their data-bid), given as its <body>
_inject_selectors(body) ==
    DetectGroups([body EXCEPT !.children =
                    [i \in 1..Len(body.children) |->
                        MarkVisibility(body.children[i], FALSE)]])

\* _refresh_dom on the parsing path: _inject_selectors(), then
\* extract_unified_dom(page.content()) as far as parse_dom
WalkPage ==
    /\ html # NoHtml
    /\ html' = _inject_selectors(html)
    /\ dom_nodes' = parse_dom(html', config)
    /\ pc' = "walked"
    /\ UNCHANGED <<script, overrides, simplified, filtered, result, again,
                   roundtrip, before_nodes, diff, diff_all, diff_max_items>>
    /\ UNCHANGED <<config, list_tree, truncated, stage_in, stage_out>>
    /\ UNCHANGED <<walkVars, sessVars, mgrVars>>

\* ---------------------------------------------------------------------
\* Pages with tab panels, walked
\* ---------------------------------------------------------------------
MaxMembers == 3      \* children of the container

\* what hides an element: nothing, a stylesheet rule, its inline style, the
\* hidden attribute
Causes == {"none", "rule", "style", "hidden"}

CauseAttrs(cause) ==
    CASE cause = "rule"   -> [k \in {"rule"} |-> "display:none"]
      [] cause = "style"  -> [k \in {"style"} |-> <<<<"display", "none">>>>]
      [] cause = "hidden" -> [k \in {"hidden"} |-> ""]
      [] OTHER            -> NoState

PanelClasses == {<<"panel">>, <<"panel", "active">>, <<>>}

\* the attributes of a child of the container
PanelAttrs(cls, cause) ==
    IF cls = <<>> THEN CauseAttrs(cause) ELSE SetAttr(CauseAttrs(cause), "class", cls)

\* the i-th child of the container: a <div> around a paragraph
Panel(i, cls, cause) ==
    WithAttrs(Element("div", 2 * i, <<>>, <<>>, <<Leaf("p", 2 * i + 1)>>),
              PanelAttrs(cls, cause))

\* <body><div>panels</div></body>
TabsPage(cs, hs) ==
    Element("body", 0, <<>>, <<>>,
            <<Element("div", 1, <<>>, <<>>,
                      [i \in 1..Len(cs) |-> Panel(i, cs[i], hs[i])])>>)

\* the page is open and has not been walked
OpenPage(doc) ==
    /\ StartPageAt("open", <<>>, "default", NoState, <<>>, DiffMaxItems)
    /\ NoManager
    /\ html = doc
    /\ config = DEFAULTS
    /\ list_tree = <<>>
    /\ truncated = <<>>
    /\ NoStage

InitGroups ==
    \E len \in 2..MaxMembers :
        \E cs \in [1..len -> PanelClasses], hs \in [1..len -> Causes] :
            OpenPage(TabsPage(cs, hs))

NextGroups == WalkPage

SpecGroups == InitGroups /\ [][NextGroups]_vars

\* the children of the container
Panels == html.children[1].children

\* the panels that form a switchable group with panel i: same tag, same
\* non-empty class once the state tokens are removed, one of them visible
\* and one hidden
GroupOf(i) ==
    LET same == {j \in 1..Len(Panels) :
                    /\ Panels[j].tag = Panels[i].tag
                    /\ StrippedClass(Panels[j]) = StrippedClass(Panels[i])}
    IN  IF /\ StrippedClass(Panels[i]) # <<>>
           /\ \E j \in same : ComputedHidden(Panels[j])
           /\ \E j \in same : ~ComputedHidden(Panels[j])
        THEN same ELSE {}

\* the raw nodes emitted for an element
NodesOf(el) == {k \in 1..Len(dom_nodes) : dom_nodes[k].selector = BidSelector(el.bid)}

\* C31: after the walk every member of a switchable sibling group is emitted
\* as a raw node, a visible member with state.selected = "true" and a hidden
\* one with state.hidden = "true", whatever hides it (stylesheet rule,
\* inline style or hidden attribute); siblings that share only their tag (no
\* class left) are not annotated.
C31_GroupMembersAreWalked ==
    pc = "walked" =>
        \A i \in 1..Len(Panels) :
            /\ i \in GroupOf(i) =>
                  \E k \in NodesOf(Panels[i]) :
                      dom_nodes[k].state = IF ComputedHidden(Panels[i])
                                           THEN [hidden |-> "true"]
                                           ELSE [selected |-> "true"]
            /\ StrippedClass(Panels[i]) = <<>> =>
                  \A k \in NodesOf(Panels[i]) : dom_nodes[k].state = NoState

\* ---------------------------------------------------------------------
\* A page walked again after it changed
\* ---------------------------------------------------------------------
\* the page shows or hides the i-th panel: its stylesheet rule, inline
\* style and hidden attribute become those of `cause`; the attributes the
\* walker has set stay on the element
PageChange(i, cause) ==
    /\ html # NoHtml
    /\ i \in 1..Len(Panels)
    /\ html' = [html EXCEPT !.children[1].children[i].raw =
                   CauseAttrs(cause) @@ DropAttrs(@, {"rule", "style", "hidden"})]
    /\ html' # html
    /\ pc' = "open"
    /\ UNCHANGED <<script, overrides, dom_nodes, simplified, filtered, result, again,
                   roundtrip, before_nodes, diff, diff_all, diff_max_items>>
    /\ UNCHANGED <<config, list_tree, truncated, stage_in, stage_out>>
    /\ UNCHANGED <<walkVars, sessVars, mgrVars>>

InitMarks ==
    \E cs \in [1..2 -> PanelClasses], hs \in [1..2 -> Causes] :
        OpenPage(TabsPage(cs, hs))

NextMarks ==
    \/ WalkPage
    \/ \E i \in 1..2, cause \in Causes : PageChange(i, cause)

SpecMarks == InitMarks /\ [][NextMarks]_vars

\* the data-bid of the elements at and below el that carry data-bhidden = 1
\* and match no hiding rule now; `concealed`: an ancestor is not displayed
RECURSIVE StaleMarks(_, _)
StaleMarks(el, concealed) ==
    IF ~IsTag(el) THEN {}
    ELSE (IF /\ AttrOf(el, "data-bhidden") = "1"
             /\ ~ComputedHidden(el)
             /\ ~(concealed /\ NoElementChildren(el))
          THEN {el.bid} ELSE {})
         \cup UNION {StaleMarks(el.children[i], concealed \/ ComputedHidden(el)) :
                     i \in 1..Len(el.children)}

\* C38: whatever walks and page changes came before, a walk leaves
\* data-bhidden = 1 only on elements that match a hiding rule at the time of
\* that walk, and an element that an earlier walk marked hidden and that is
\* visible now is not treated as hidden: the walk emits it.
C38_VisibilityDecidedAfresh ==
    pc = "walked" =>
        /\ StaleMarks(html.children[1], FALSE) = {}
        /\ \A i \in 1..Len(Panels) :
              ~ComputedHidden(Panels[i]) => NodesOf(Panels[i]) # {}

====
